---------------------------- MODULE Spec2Model ----------------------------
(***************************************************************************)
(* A state-machine model of src/.venv/Main.py: the interface mock-up       *)
(* editor (CanvasElement, Canvas, MainWindow).                             *)
(*                                                                         *)
(* A QPointF is a pair <<x, y>>, a QSizeF a pair <<w, h>>; an absent       *)
(* (None) point, rectangle or element is the empty tuple <<>>.  Python     *)
(* objects that are compared by identity (CanvasElement) carry an id drawn *)
(* from the allocation counter next_id.  Tab indexes are 1-based; 0 is     *)
(* QTabWidget's -1 (no current tab).  A canvas identifier "canvas_N" is    *)
(* the number N, and 0 is an absent identifier.                            *)
(***************************************************************************)
EXTENDS Integers, Sequences, FiniteSets, TLC

VARIABLES
    current_tool,       \* MainWindow.current_tool
    tabs,               \* the QTabWidget's pages: a sequence of Canvas objects
    tab_index,          \* QTabWidget.currentIndex() (1-based, 0 = none)
    canvases,           \* MainWindow.canvases: ordered dict, <<canvas_id, tab position>>
    canvas_list,        \* MainWindow.canvas_list: the canvas_id of each item
    current_canvas_id,  \* MainWindow.current_canvas_id
    canvas_counter,     \* MainWindow.canvas_counter
    timers,             \* pending QTimer.singleShot closures of animate_tab_transition
    file,               \* the project file last written by save_project
    next_id             \* allocation counter giving CanvasElement objects their identity

vars == <<current_tool, tabs, tab_index, canvases, canvas_list,
          current_canvas_id, canvas_counter, timers, file, next_id>>

-----------------------------------------------------------------------------
(* Bounds of the model *)

\* CanvasElement objects allocated in one run
MaxIds == 3
\* pages the tab widget holds at once
MaxTabs == 2
\* largest value canvas_counter takes
MaxCounter == 3
\* animations (chains of single-shot timers) pending at once
MaxTimers == 1
\* points a freehand gesture collects
MaxPoints == 2
\* |coordinate| of an element dragged with the select tool
MaxCoord == 120

(* Program constants *)

\* CanvasElement.__init__: QSizeF(100, 100)
DefaultSide == 100
\* Canvas.get_resize_handle: handle_size
handle_size == 8
\* MainWindow.animate_tab_transition: steps
steps == 10
\* MainWindow.create_link_dialog: QSizeF(30, 30)
LinkSide == 30

None == <<>>

\* Pointer positions the events carry.  <<0, 0>> is left out: a null QPointF
\* is falsy in PySide6, which is a case of its own.
Pts == {<<20, 20>>, <<50, 60>>}

Buttons == {"left", "right", "middle"}

Tools == {"select", "point", "line", "straight", "arrow", "rect", "circle",
          "triangle", "pentagon", "hexagon", "text", "button", "input",
          "menu", "icon", "image", "link"}

\* ElementType
ElementType == {"point", "line", "straight", "triangle", "rect", "circle",
                "pentagon", "hexagon", "arrow", "text", "button", "input",
                "menu", "icon", "image", "link"}

\* AlignmentType
AlignmentType == {"left", "right", "top", "bottom", "center_h", "center_v",
                  "center", "distribute_h", "distribute_v"}

DragTools == {"straight", "arrow", "triangle", "rect", "circle", "pentagon", "hexagon"}

Range(s) == {s[i] : i \in DOMAIN s}

Min(a, b) == IF a < b THEN a ELSE b
Max(a, b) == IF a > b THEN a ELSE b
Abs(a) == IF a < 0 THEN -a ELSE a

SetMin(S) == CHOOSE m \in S : \A n \in S : m <= n
SetMax(S) == CHOOSE m \in S : \A n \in S : m >= n

\* math.sqrt, on the squares the pointer positions produce: the floor of the root
sqrt(n) == CHOOSE r \in 0..n : r * r <= n /\ (r + 1) * (r + 1) > n

-----------------------------------------------------------------------------
(* CanvasElement *)

\* The data payload ({} at construction).  end: data['end']; end_alias: data['end']
\* is the very QPointF object held as position (they were set from the same pos
\* and in-place changes of position show through it); points: data['points'];
\* payload: the dialog-edited entries (text, font, placeholder, items, icon_type);
\* alignment: data['alignment']; target_canvas, animate: the link's entries.
EmptyData ==
    [end |-> None, end_alias |-> FALSE, points |-> <<>>, payload |-> "none",
     alignment |-> "none", target_canvas |-> 0, animate |-> TRUE]

CanvasElement(id, element_type, position) ==
    [id |-> id, element_type |-> element_type, position |-> position,
     size |-> <<DefaultSide, DefaultSide>>, color |-> "#960096", z_value |-> 0,
     data |-> EmptyData]

\* QRectF(position, size)
get_bounds(e) ==
    [x |-> e.position[1], y |-> e.position[2], w |-> e.size[1], h |-> e.size[2]]

RectLeft(r) == IF r.w < 0 THEN r.x + r.w ELSE r.x
RectRight(r) == IF r.w < 0 THEN r.x ELSE r.x + r.w
RectTop(r) == IF r.h < 0 THEN r.y + r.h ELSE r.y
RectBottom(r) == IF r.h < 0 THEN r.y ELSE r.y + r.h

\* QRectF.contains(QPointF): edges included, a rectangle of no width or height holds nothing
RectContains(r, p) ==
    /\ RectLeft(r) # RectRight(r)
    /\ RectTop(r) # RectBottom(r)
    /\ RectLeft(r) <= p[1] /\ p[1] <= RectRight(r)
    /\ RectTop(r) <= p[2] /\ p[2] <= RectBottom(r)

\* QRectF.intersects(QRectF): a proper overlap of two rectangles of non-zero area
RectIntersects(r, s) ==
    /\ RectLeft(r) # RectRight(r) /\ RectLeft(s) # RectRight(s)
    /\ RectTop(r) # RectBottom(r) /\ RectTop(s) # RectBottom(s)
    /\ RectLeft(r) < RectRight(s) /\ RectLeft(s) < RectRight(r)
    /\ RectTop(r) < RectBottom(s) /\ RectTop(s) < RectBottom(r)

\* QRectF(p, q).normalized()
RectOfPoints(p, q) ==
    [x |-> Min(p[1], q[1]), y |-> Min(p[2], q[2]),
     w |-> Abs(q[1] - p[1]), h |-> Abs(q[2] - p[2])]

contains_point(e, p) == RectContains(get_bounds(e), p)

\* position += delta, in place: an aliased data['end'] follows
move(e, delta) ==
    [e EXCEPT !.position = <<e.position[1] + delta[1], e.position[2] + delta[2]>>]

\* The value read through data['end']
EndOf(e) == IF e.data.end_alias THEN e.position ELSE e.data.end


\* to_dict: the record json.dump is given.  The position and size become pairs,
\* the colour its name; data is passed on as it is, its QPointF and Qt enum
\* entries included (end_obj: data['end'] holds a QPointF object).
to_dict(e) ==
    [type |-> e.element_type, position |-> e.position, size |-> e.size,
     color |-> e.color, z_value |-> e.z_value,
     data |-> [end |-> EndOf(e), end_obj |-> (e.data.end_alias \/ e.data.end # None),
               points |-> e.data.points, payload |-> e.data.payload,
               alignment |-> e.data.alignment,
               target_canvas |-> e.data.target_canvas, animate |-> e.data.animate]]

\* json.dump raises TypeError on a QPointF (data['end']).  A Qt.AlignmentFlag
\* (data['alignment']) is written as its number where the binding makes the
\* flag an int (int_flags) and raises TypeError where it does not.
JsonSerializable(d, int_flags) ==
    ~d.data.end_obj /\ (int_flags \/ d.data.alignment = "none")

\* from_dict: a new CanvasElement from a decoded record (data holds what JSON
\* gave back: no entry is a QPointF or a Qt enum any more)
from_dict(d, id) ==
    [id |-> id, element_type |-> d.type, position |-> d.position, size |-> d.size,
     color |-> d.color, z_value |-> d.z_value,
     data |-> [end |-> d.data.end, end_alias |-> FALSE, points |-> d.data.points,
               payload |-> d.data.payload, alignment |-> d.data.alignment,
               target_canvas |-> d.data.target_canvas, animate |-> d.data.animate]]

-----------------------------------------------------------------------------
(* Canvas *)

Canvas(canvas_id, name) ==
    [canvas_id |-> canvas_id, name |-> name,
     elements |-> <<>>, selected_elements |-> <<>>,
     drawing |-> FALSE, current_element |-> None, start_point |-> None,
     current_points |-> <<>>,
     selection_start |-> None, selection_rect |-> None,
     dragging |-> FALSE, drag_start |-> None]

ElementIds(c) == {c.elements[i].id : i \in DOMAIN c.elements}

add_element(c, e) == [c EXCEPT !.elements = Append(@, e)]

\* list.remove drops the one entry that is this object
remove_element_NoDeselect(c, id) ==
    [c EXCEPT !.elements = SelectSeq(@, LAMBDA e : e.id # id)]

remove_element(c, id) ==
    [c EXCEPT !.elements = SelectSeq(@, LAMBDA e : e.id # id),
              !.selected_elements = SelectSeq(@, LAMBDA s : s # id)]

clear_selection(c) == [c EXCEPT !.selected_elements = <<>>]

\* Mutant: the selection is replaced whatever add_to_selection says
select_element_Replaces(c, id, add_to_selection) ==
    [c EXCEPT !.selected_elements = <<id>>]

select_element(c, id, add_to_selection) ==
    LET c1 == IF add_to_selection THEN c ELSE clear_selection(c)
    IN  IF id \in Range(c1.selected_elements) THEN c1
        ELSE [c1 EXCEPT !.selected_elements = Append(@, id)]

\* Mutant: the list is searched from its start, the first hit is given
get_element_at_First(c, point) ==
    LET hits == {i \in DOMAIN c.elements : contains_point(c.elements[i], point)}
    IN  IF hits = {} THEN 0 ELSE SetMin(hits)

\* The index in elements of the element found, 0 for None: the last one
\* (reversed(self.elements)) whose bounds contain the point
get_element_at(c, point) ==
    LET hits == {i \in DOMAIN c.elements : contains_point(c.elements[i], point)}
    IN  IF hits = {} THEN 0 ELSE SetMax(hits)

\* The ids of the elements whose bounds intersect rect, in the order of elements
get_elements_in_rect(c, rect) ==
    LET in == SelectSeq(c.elements, LAMBDA e : RectIntersects(rect, get_bounds(e)))
    IN  [i \in DOMAIN in |-> in[i].id]

\* The eight handles, in doubled coordinates (bounds.center() halves the size)
Handles2(b) ==
    << <<2 * RectLeft(b), 2 * RectTop(b)>>,
       <<2 * b.x + b.w, 2 * RectTop(b)>>,
       <<2 * RectRight(b), 2 * RectTop(b)>>,
       <<2 * RectRight(b), 2 * b.y + b.h>>,
       <<2 * RectRight(b), 2 * RectBottom(b)>>,
       <<2 * b.x + b.w, 2 * RectBottom(b)>>,
       <<2 * RectLeft(b), 2 * RectBottom(b)>>,
       <<2 * RectLeft(b), 2 * b.y + b.h>> >>

\* The number (0..7) of the first handle within handle_size (Manhattan) of the
\* point, -1 for None
get_resize_handle(point, bounds) ==
    LET hs == Handles2(bounds)
        near == {i \in DOMAIN hs :
                    Abs(2 * point[1] - hs[i][1]) + Abs(2 * point[2] - hs[i][2])
                        < 2 * handle_size}
    IN  IF near = {} THEN -1 ELSE SetMin(near) - 1

-----------------------------------------------------------------------------
(* Canvas: the pointer handlers, on the canvas's own state *)

\* The element a single-click tool constructs (mousePressEvent)
PlacedElement(id, tool, pos) ==
    LET e == CanvasElement(id, tool, pos)
    IN  CASE tool = "point" -> [e EXCEPT !.size = <<5, 5>>]
          [] tool = "text" ->
               [e EXCEPT !.data.payload = "default", !.data.alignment = "AlignLeft"]
          [] tool = "button" ->
               [e EXCEPT !.size = <<100, 30>>, !.data.payload = "default"]
          [] tool = "input" ->
               [e EXCEPT !.size = <<150, 25>>, !.data.payload = "default"]
          [] tool = "menu" ->
               [e EXCEPT !.size = <<120, 25>>, !.data.payload = "default"]
          [] tool = "icon" ->
               [e EXCEPT !.size = <<32, 32>>, !.data.payload = "default"]

\* The element a drag tool constructs: data = {'end': pos}, the same pos object
\* that is its position
ShapeElement(id, tool, pos) ==
    [CanvasElement(id, tool, pos) EXCEPT !.data.end_alias = TRUE]

\* mousePressEvent, left button, select tool (no link under the pointer)
PressSelect(c, pos, ctrl) ==
    LET i == get_element_at(c, pos)
    IN  IF i # 0
        THEN [select_element(c, c.elements[i].id, ctrl)
                 EXCEPT !.dragging = TRUE, !.drag_start = pos]
        ELSE [clear_selection(c)
                 EXCEPT !.selection_start = pos,
                        !.selection_rect = [x |-> pos[1], y |-> pos[2], w |-> 0, h |-> 0]]

\* mousePressEvent, left button, any other tool (no link under the pointer).
\* The branches for input, menu, icon, image and link are not in this chain:
\* with those tools the press only starts a drawing.
PressDraw(c, tool, pos, id) ==
    LET c1 == [c EXCEPT !.start_point = pos, !.drawing = TRUE,
                        !.current_points = <<pos>>]
    IN  CASE tool \in {"point", "text", "button"} ->
               [add_element(c1, PlacedElement(id, tool, pos)) EXCEPT !.drawing = FALSE]
          [] tool \in DragTools ->
               [c1 EXCEPT !.current_element = <<ShapeElement(id, tool, pos)>>]
          [] OTHER -> c1

\* mousePressEvent, a button other than the left: the elif branches that follow
\* the left-button block (input, menu, icon place an element; image, link pass)
PressOther(c, tool, pos, id) ==
    IF tool \in {"input", "menu", "icon"}
    THEN [add_element(c, PlacedElement(id, tool, pos)) EXCEPT !.drawing = FALSE]
    ELSE c

\* Whether the press constructs a CanvasElement (and so takes an id)
PressAllocates(tool, button) ==
    IF button = "left"
    THEN tool \in {"point", "text", "button"} \cup DragTools
    ELSE tool \in {"input", "menu", "icon"}

\* The in-progress element after a pointer move to end
Resized(e, tool, start, end) ==
    LET dx == end[1] - start[1]
        dy == end[2] - start[2]
        e1 == [e EXCEPT !.data.end = end, !.data.end_alias = FALSE]
    IN  CASE tool \in {"straight", "arrow"} ->
               [e1 EXCEPT !.size = <<sqrt(dx * dx + dy * dy), 1>>]
          [] tool = "rect" ->
               [e1 EXCEPT !.position = <<Min(start[1], end[1]), Min(start[2], end[2])>>,
                          !.size = <<Abs(dx), Abs(dy)>>]
          [] tool \in {"circle", "triangle", "pentagon", "hexagon"} ->
               [e1 EXCEPT !.size = <<Min(Abs(dx), Abs(dy)), Min(Abs(dx), Abs(dy))>>]
          [] OTHER -> e1

MoveSelected(c, delta) ==
    [c EXCEPT !.elements =
        [i \in DOMAIN @ |-> IF @[i].id \in Range(c.selected_elements)
                            THEN move(@[i], delta) ELSE @[i]]]

\* Mutant: the drag reference stays where the press put it
mouseMoveEvent_KeepsDragStart(c, tool, pos) ==
    IF tool = "select" /\ c.dragging /\ c.drag_start # None /\ c.selected_elements # <<>>
    THEN MoveSelected(c, <<pos[1] - c.drag_start[1], pos[2] - c.drag_start[2]>>)
    ELSE IF tool = "select" /\ c.selection_start # None
    THEN [c EXCEPT !.selection_rect = RectOfPoints(c.selection_start, pos)]
    ELSE c

\* mouseMoveEvent (the tooltip bookkeeping, which no other code reads, is left out)
mouseMoveEvent(c, tool, pos) ==
    IF tool = "select" /\ c.dragging /\ c.drag_start # None /\ c.selected_elements # <<>>
    THEN [MoveSelected(c, <<pos[1] - c.drag_start[1], pos[2] - c.drag_start[2]>>)
             EXCEPT !.drag_start = pos]
    ELSE IF tool = "select" /\ c.selection_start # None
    THEN [c EXCEPT !.selection_rect = RectOfPoints(c.selection_start, pos)]
    ELSE IF c.drawing
    THEN IF tool = "line"
         THEN [c EXCEPT !.current_points = Append(@, pos)]
         ELSE IF c.current_element # None
         THEN [c EXCEPT !.current_element =
                            <<Resized(c.current_element[1], tool, c.start_point, pos)>>]
         ELSE c
    ELSE c

RECURSIVE SelectAll(_, _)
\* for element in elements: self.select_element(element, True)
SelectAll(c, ids) ==
    IF ids = <<>> THEN c
    ELSE SelectAll(select_element(c, Head(ids), TRUE), Tail(ids))

\* The freehand element mouseReleaseEvent constructs from current_points
LineElement(id, points) ==
    LET xs == {points[i][1] : i \in DOMAIN points}
        ys == {points[i][2] : i \in DOMAIN points}
    IN  [CanvasElement(id, "line", points[1])
            EXCEPT !.position = <<SetMin(xs), SetMin(ys)>>,
                   !.size = <<SetMax(xs) - SetMin(xs), SetMax(ys) - SetMin(ys)>>,
                   !.data.points = points]

\* Whether the release constructs a CanvasElement (and so takes an id)
ReleaseAllocates(c, tool) ==
    /\ ~(tool = "select")
    /\ c.drawing
    /\ tool = "line"
    /\ Len(c.current_points) > 1

\* Mutant: the release adds the element and keeps it as the element in progress
mouseReleaseEvent_KeepsCurrent(c, tool, id) ==
    IF tool = "select" /\ c.selection_start # None
    THEN LET c1 == IF c.selection_rect # None
                      /\ ~(c.selection_rect.w = 0 /\ c.selection_rect.h = 0)
                   THEN SelectAll(c, get_elements_in_rect(c, c.selection_rect))
                   ELSE c
         IN  [c1 EXCEPT !.selection_start = None, !.selection_rect = None]
    ELSE IF tool = "select"
    THEN [c EXCEPT !.dragging = FALSE, !.drag_start = None]
    ELSE IF c.drawing
    THEN LET c1 == IF tool = "line" /\ Len(c.current_points) > 1
                   THEN [add_element(c, LineElement(id, c.current_points))
                            EXCEPT !.current_points = <<>>]
                   ELSE IF c.current_element # None
                   THEN add_element(c, c.current_element[1])
                   ELSE c
         IN  [c1 EXCEPT !.drawing = FALSE]
    ELSE c

\* mouseReleaseEvent, left button (another button's release does nothing).
\* A QRectF of no width and no height is falsy.
mouseReleaseEvent(c, tool, id) ==
    IF tool = "select" /\ c.selection_start # None
    THEN LET c1 == IF c.selection_rect # None
                      /\ ~(c.selection_rect.w = 0 /\ c.selection_rect.h = 0)
                   THEN SelectAll(c, get_elements_in_rect(c, c.selection_rect))
                   ELSE c
         IN  [c1 EXCEPT !.selection_start = None, !.selection_rect = None]
    ELSE IF tool = "select"
    THEN [c EXCEPT !.dragging = FALSE, !.drag_start = None]
    ELSE IF c.drawing
    THEN LET c1 == IF tool = "line" /\ Len(c.current_points) > 1
                   THEN [add_element(c, LineElement(id, c.current_points))
                            EXCEPT !.current_points = <<>>]
                   ELSE IF c.current_element # None
                   THEN [add_element(c, c.current_element[1])
                            EXCEPT !.current_element = None]
                   ELSE c
         IN  [c1 EXCEPT !.drawing = FALSE]
    ELSE c

-----------------------------------------------------------------------------
(* Canvas: dialogs, alignment, painting *)

\* What the user leaves in an edit dialog: the colour button pressed or not
\* (choose_color acts at once), the dialog accepted or not, the text and the
\* alignment chosen
EditInputs ==
    { [pick |-> FALSE, accept |-> FALSE, text |-> "default", align |-> "AlignLeft"],
      [pick |-> TRUE,  accept |-> FALSE, text |-> "default", align |-> "AlignLeft"],
      [pick |-> FALSE, accept |-> TRUE,  text |-> "edited",  align |-> "AlignCenter"],
      [pick |-> FALSE, accept |-> TRUE,  text |-> "default", align |-> "AlignLeft"],
      [pick |-> TRUE,  accept |-> TRUE,  text |-> "edited",  align |-> "AlignRight"] }

\* choose_color with a valid colour picked
choose_color(e) == [e EXCEPT !.color = "#336699"]

\* Mutant: an accepted edit of a button, input, menu or icon makes it a text
EditedElement_Retypes(e, in) ==
    CASE e.element_type = "text" ->
           LET e1 == IF in.pick THEN choose_color(e) ELSE e
           IN  IF in.accept
               THEN [e1 EXCEPT !.data.payload = in.text, !.data.alignment = in.align]
               ELSE e1
      [] e.element_type \in {"button", "input", "menu", "icon"} ->
           IF in.accept THEN [e EXCEPT !.data.payload = in.text, !.element_type = "text"]
           ELSE e
      [] OTHER -> e

EditedElement(e, in) ==
    CASE e.element_type = "text" ->
           LET e1 == IF in.pick THEN choose_color(e) ELSE e
           IN  IF in.accept
               THEN [e1 EXCEPT !.data.payload = in.text, !.data.alignment = in.align]
               ELSE e1
      [] e.element_type \in {"button", "input", "menu", "icon"} ->
           IF in.accept THEN [e EXCEPT !.data.payload = in.text] ELSE e
      [] OTHER -> e

\* edit_element on the element at index i of elements
edit_element(c, i, in) ==
    [c EXCEPT !.elements[i] = EditedElement(@, in)]

RECURSIVE StableSort(_, _)
\* sorted(seq, key=...): Python's sort is stable.  key is a sequence of the keys.
\* Gives the indexes of seq in sorted order.
StableSort(keys, done) ==
    IF Len(done) = Len(keys) THEN done
    ELSE LET left == {i \in DOMAIN keys : i \notin Range(done)}
             k == SetMin({keys[i] : i \in left})
             i == SetMin({j \in left : keys[j] = k})
         IN  StableSort(keys, Append(done, i))

RECURSIVE Sum(_)
Sum(s) == IF s = <<>> THEN 0 ELSE Head(s) + Sum(Tail(s))

\* The indexes in elements of the selected elements, in selection order
SelectedIndexes(c) ==
    LET live == SelectSeq(c.selected_elements, LAMBDA id : id \in ElementIds(c))
    IN  [k \in DOMAIN live |-> CHOOSE i \in DOMAIN c.elements : c.elements[i].id = live[k]]

\* position = QPointF(...): a new object, which an aliased data['end'] does not follow
Reposition(e, pos) ==
    [e EXCEPT !.position = pos,
              !.data.end = IF e.data.end_alias THEN e.position ELSE @,
              !.data.end_alias = FALSE]

\* The new positions align_elements computes, as <<numerator, denominator>> pairs
\* per coordinate: the centre and distribution rules divide
AlignedPosition(c, idx, align_type, k) ==
    LET n == Len(idx)
        el(j) == c.elements[idx[j]]
        b(j) == get_bounds(el(j))
        e == el(k)
        lefts == [j \in 1..n |-> RectLeft(b(j))]
        tops == [j \in 1..n |-> RectTop(b(j))]
        cx2 == Sum([j \in 1..n |-> 2 * b(j).x + b(j).w])
        cy2 == Sum([j \in 1..n |-> 2 * b(j).y + b(j).h])
        byX == StableSort([j \in 1..n |-> el(j).position[1]], <<>>)
        byY == StableSort([j \in 1..n |-> el(j).position[2]], <<>>)
        rankX == CHOOSE r \in 1..n : byX[r] = k
        rankY == CHOOSE r \in 1..n : byY[r] = k
        minL == SetMin(Range(lefts))
        maxL == SetMax(Range(lefts))
        minT == SetMin(Range(tops))
        maxT == SetMax(Range(tops))
        x == e.position[1]
        y == e.position[2]
    IN  CASE align_type = "left" -> <<minL, 1, y, 1>>
          [] align_type = "right" ->
               <<SetMax({RectRight(b(j)) : j \in 1..n}) - e.size[1], 1, y, 1>>
          [] align_type = "top" -> <<x, 1, minT, 1>>
          [] align_type = "bottom" ->
               <<x, 1, SetMax({RectBottom(b(j)) : j \in 1..n}) - e.size[2], 1>>
          [] align_type = "center_h" -> <<cx2 - n * e.size[1], 2 * n, y, 1>>
          [] align_type = "center_v" -> <<x, 1, cy2 - n * e.size[2], 2 * n>>
          [] align_type = "center" ->
               <<cx2 - n * e.size[1], 2 * n, cy2 - n * e.size[2], 2 * n>>
          [] align_type = "distribute_h" ->
               IF n > 2 THEN <<minL * (n - 1) + (rankX - 1) * (maxL - minL), n - 1, y, 1>>
               ELSE <<x, 1, y, 1>>
          [] align_type = "distribute_v" ->
               IF n > 2 THEN <<x, 1, minT * (n - 1) + (rankY - 1) * (maxT - minT), n - 1>>
               ELSE <<x, 1, y, 1>>

\* The alignment lands every element on whole coordinates (the model's numbers
\* are integers: an alignment that does not is not taken)
AlignExact(c, align_type) ==
    LET idx == SelectedIndexes(c)
    IN  Len(idx) < 2 \/
        \A k \in DOMAIN idx :
            LET q == AlignedPosition(c, idx, align_type, k)
            IN  q[1] % q[2] = 0 /\ q[3] % q[4] = 0

\* Mutant: RIGHT and BOTTOM put the position, not the far edge, on the maximum
align_elements_FarCorner(c, align_type) ==
    LET idx == SelectedIndexes(c)
        at(i) == CHOOSE k \in DOMAIN idx : idx[k] = i
        new(i) == LET q == AlignedPosition(c, idx, align_type, at(i))
                      e == c.elements[i]
                  IN  <<IF align_type = "right" THEN q[1] + e.size[1] ELSE q[1] \div q[2],
                        IF align_type = "bottom" THEN q[3] + e.size[2] ELSE q[3] \div q[4]>>
    IN  IF Len(idx) < 2 THEN c
        ELSE [c EXCEPT !.elements =
                [i \in DOMAIN @ |->
                    IF i \notin Range(idx) THEN @[i]
                    ELSE IF align_type = "center" THEN Reposition(@[i], new(i))
                    ELSE [@[i] EXCEPT !.position = new(i)]]]

\* Mutant: the centre alignments put the corner, not the centre, on the mean
align_elements_CornerOnMean(c, align_type) ==
    LET idx == SelectedIndexes(c)
        at(i) == CHOOSE k \in DOMAIN idx : idx[k] = i
        new(i) == LET q == AlignedPosition(c, idx, align_type, at(i))
                      e == c.elements[i]
                  IN  <<IF align_type \in {"center_h", "center"}
                        THEN (q[1] + Len(idx) * e.size[1]) \div q[2] ELSE q[1] \div q[2],
                        IF align_type \in {"center_v", "center"}
                        THEN (q[3] + Len(idx) * e.size[2]) \div q[4] ELSE q[3] \div q[4]>>
    IN  IF Len(idx) < 2 THEN c
        ELSE [c EXCEPT !.elements =
                [i \in DOMAIN @ |->
                    IF i \notin Range(idx) THEN @[i]
                    ELSE IF align_type = "center" THEN Reposition(@[i], new(i))
                    ELSE [@[i] EXCEPT !.position = new(i)]]]

\* Mutant: the distributions place the elements in selection order, not in the
\* order of their positions
align_elements_SelectionOrder(c, align_type) ==
    LET idx == SelectedIndexes(c)
        n == Len(idx)
        at(i) == CHOOSE k \in DOMAIN idx : idx[k] = i
        lo(axis) == SetMin({c.elements[idx[k]].position[axis] : k \in DOMAIN idx})
        hi(axis) == SetMax({c.elements[idx[k]].position[axis] : k \in DOMAIN idx})
        spread(i, axis) == (lo(axis) * (n - 1) + (at(i) - 1) * (hi(axis) - lo(axis)))
                               \div (n - 1)
        new(i) == LET q == AlignedPosition(c, idx, align_type, at(i))
                  IN  <<IF align_type = "distribute_h" /\ n > 2
                        THEN spread(i, 1) ELSE q[1] \div q[2],
                        IF align_type = "distribute_v" /\ n > 2
                        THEN spread(i, 2) ELSE q[3] \div q[4]>>
    IN  IF Len(idx) < 2 THEN c
        ELSE [c EXCEPT !.elements =
                [i \in DOMAIN @ |->
                    IF i \notin Range(idx) THEN @[i]
                    ELSE IF align_type = "center" THEN Reposition(@[i], new(i))
                    ELSE [@[i] EXCEPT !.position = new(i)]]]

\* Mutant: the elements outside the selection are taken along
align_elements_WholeCanvas(c, align_type) ==
    LET idx == SelectedIndexes(c)
        at(i) == CHOOSE k \in DOMAIN idx : idx[k] = i
        new(i) == LET q == AlignedPosition(c, idx, align_type, at(i))
                  IN  <<q[1] \div q[2], q[3] \div q[4]>>
    IN  IF Len(idx) < 2 THEN c
        ELSE [c EXCEPT !.elements =
                [i \in DOMAIN @ |->
                    [@[i] EXCEPT !.position = IF i \in Range(idx) THEN new(i)
                                              ELSE new(idx[1])]]]

\* align_elements(self.selected_elements, align_type)
align_elements(c, align_type) ==
    LET idx == SelectedIndexes(c)
        at(i) == CHOOSE k \in DOMAIN idx : idx[k] = i
        new(i) == LET q == AlignedPosition(c, idx, align_type, at(i))
                  IN  <<q[1] \div q[2], q[3] \div q[4]>>
    IN  IF Len(idx) < 2 THEN c
        ELSE [c EXCEPT !.elements =
                [i \in DOMAIN @ |->
                    IF i \notin Range(idx) THEN @[i]
                    ELSE IF align_type = "center" THEN Reposition(@[i], new(i))
                    ELSE [@[i] EXCEPT !.position = new(i)]]]

\* show_alignment_dialog: nothing without a selection; else the type chosen
\* ("cancel": the dialog rejected)
show_alignment_dialog(c, choice) ==
    IF c.selected_elements = <<>> \/ choice = "cancel" THEN c
    ELSE align_elements(c, choice)

\* Mutant: an unstable sort, ties in reverse
PaintOrder_Unstable(c) ==
    LET n == Len(c.elements)
        o == StableSort([i \in 1..n |-> c.elements[n + 1 - i].z_value], <<>>)
    IN  [k \in 1..n |-> n + 1 - o[k]]

\* paintEvent: the indexes of elements in the order they are drawn,
\* sorted(self.elements, key=lambda e: e.z_value)
PaintOrder(c) ==
    StableSort([i \in DOMAIN c.elements |-> c.elements[i].z_value], <<>>)

-----------------------------------------------------------------------------
(* MainWindow: helpers *)

\* self.canvases.get(canvas_id): the tab position of the Canvas, 0 for None
CanvasTab(d, canvas_id) ==
    IF \E k \in DOMAIN d : d[k][1] = canvas_id
    THEN (CHOOSE e \in Range(d) : e[1] = canvas_id)[2]
    ELSE 0

Keys(d) == {d[k][1] : k \in DOMAIN d}

\* self.canvases[canvas_id] = canvas: a new key goes last, a present key keeps its place
DictSet(d, canvas_id, pos) ==
    IF canvas_id \in Keys(d)
    THEN [k \in DOMAIN d |-> IF d[k][1] = canvas_id THEN <<canvas_id, pos>> ELSE d[k]]
    ELSE Append(d, <<canvas_id, pos>>)

\* del self.canvases[canvas_id]
DictDel(d, canvas_id) == SelectSeq(d, LAMBDA e : e[1] # canvas_id)

\* The positions the entries hold once the page at index is removed
DictShift(d, index) ==
    [k \in DOMAIN d |-> IF d[k][2] > index THEN <<d[k][1], d[k][2] - 1>> ELSE d[k]]

RemoveAt(s, i) == [k \in 1..(Len(s) - 1) |-> IF k < i THEN s[k] ELSE s[k + 1]]

\* The first tab that shows canvas_id, 0 if none
FirstTabOf(t, canvas_id) ==
    LET hits == {i \in DOMAIN t : t[i].canvas_id = canvas_id}
    IN  IF hits = {} THEN 0 ELSE SetMin(hits)

\* on_tab_changed(index), connected to currentChanged
on_tab_changed(t, index, cur_id) ==
    IF index \in DOMAIN t THEN t[index].canvas_id ELSE cur_id

\* tab_widget.setCurrentIndex(index): an index out of range is ignored; a change
\* of the current index emits currentChanged
setCurrentIndex(t, index, cur_index, cur_id) ==
    IF index \in DOMAIN t /\ index # cur_index
    THEN [tab_index |-> index, current_canvas_id |-> on_tab_changed(t, index, cur_id)]
    ELSE [tab_index |-> cur_index, current_canvas_id |-> cur_id]


\* The tab index step_transition(step) shows: int(from + (to - from) * step / steps)
StepIndex(from, to, step) == (from * steps + (to - from) * step) \div steps

\* Mutant: the final step shows the tab the animation started from
step_transition_Back(t, cur_index, cur_id, tm) ==
    IF tm.step <= steps
    THEN LET r == setCurrentIndex(t, StepIndex(tm.from, tm.to, tm.step), cur_index, cur_id)
         IN  [tab_index |-> r.tab_index, current_canvas_id |-> r.current_canvas_id,
              next |-> <<[tm EXCEPT !.step = @ + 1]>>]
    ELSE LET r == setCurrentIndex(t, tm.from, cur_index, cur_id)
         IN  [tab_index |-> r.tab_index,
              current_canvas_id |-> on_tab_changed(t, r.tab_index, r.current_canvas_id),
              next |-> <<>>]

\* step_transition(step) of animate_tab_transition(from, to): what it leaves as
\* the current tab and canvas, and the call it schedules (next: none or one).
\* tm.target is the canvas navigate_to_canvas was asked for; no step reads it.
step_transition(t, cur_index, cur_id, tm) ==
    IF tm.step <= steps
    THEN LET r == setCurrentIndex(t, StepIndex(tm.from, tm.to, tm.step), cur_index, cur_id)
         IN  [tab_index |-> r.tab_index, current_canvas_id |-> r.current_canvas_id,
              next |-> <<[tm EXCEPT !.step = @ + 1]>>]
    ELSE LET r == setCurrentIndex(t, tm.to, cur_index, cur_id)
         IN  [tab_index |-> r.tab_index,
              current_canvas_id |-> on_tab_changed(t, r.tab_index, r.current_canvas_id),
              next |-> <<>>]

\* Mutant: the target becomes the current canvas whether it is open or not
navigate_to_canvas_Unchecked(t, d, cur_index, cur_id, tms, target, animate) ==
    LET hits == {i \in DOMAIN t : t[i].canvas_id = target}
    IN  [tab_index |-> IF hits = {} THEN cur_index
                       ELSE CHOOSE i \in hits : \A j \in hits : i <= j,
         current_canvas_id |-> target, timers |-> tms]

\* navigate_to_canvas(target_canvas_id, animate)
navigate_to_canvas(t, d, cur_index, cur_id, tms, target, animate) ==
    LET target_index == FirstTabOf(t, target)
    IN  IF CanvasTab(d, target) = 0 \/ target_index = 0
        THEN [tab_index |-> cur_index, current_canvas_id |-> cur_id, timers |-> tms]
        ELSE IF animate /\ target_index # cur_index
        THEN LET r == step_transition(t, cur_index, cur_id,
                        [from |-> cur_index, to |-> target_index, step |-> 1,
                         target |-> target])
             IN  [tab_index |-> r.tab_index, current_canvas_id |-> r.current_canvas_id,
                  timers |-> tms \o r.next]
        ELSE [tab_index |-> setCurrentIndex(t, target_index, cur_index, cur_id).tab_index,
              current_canvas_id |-> target, timers |-> tms]

\* Whether the call starts an animation
Animates(t, d, cur_index, target, animate) ==
    /\ CanvasTab(d, target) # 0
    /\ animate
    /\ FirstTabOf(t, target) # cur_index

\* create_link_dialog, per element: the conversion into a link
LinkElement(e, target, animate) ==
    [e EXCEPT !.element_type = "link", !.data.target_canvas = target,
              !.data.animate = animate, !.size = <<LinkSide, LinkSide>>]

\* The canvases the link dialog lists: every key but current_canvas_id
LinkTargets(d, cur_id) == Keys(d) \ {cur_id}

\* The visible canvas: the page the pointer and key events reach
Visible == tabs[tab_index]

\* get_current_canvas(): a tab position, 0 for None
get_current_canvas == CanvasTab(canvases, current_canvas_id)

InRange(c) ==
    \A i \in DOMAIN c.elements :
        Abs(c.elements[i].position[1]) <= MaxCoord /\ Abs(c.elements[i].position[2]) <= MaxCoord

-----------------------------------------------------------------------------
(* Project files *)

\* A file that is no project: json.load raises on it
NoProject == [ok |-> FALSE, canvases |-> <<>>, current_canvas |-> 0]

\* A decoded element record as a project file written by hand may hold it
SampleElement(type, position, z_value) ==
    [type |-> type, position |-> position, size |-> <<DefaultSide, DefaultSide>>,
     color |-> "#960096", z_value |-> z_value,
     data |-> [end |-> None, end_obj |-> FALSE, points |-> <<>>, payload |-> "none",
               alignment |-> "none", target_canvas |-> 0, animate |-> TRUE]]

\* A project saved with a link on canvas 1 to canvas 2, followed at once
LinkFile ==
    [ok |-> TRUE, current_canvas |-> 1,
     canvases |-> << [id |-> 1, name |-> 1,
                      elements |-> << [SampleElement("link", <<50, 60>>, 0)
                                          EXCEPT !.size = <<LinkSide, LinkSide>>,
                                                 !.data.target_canvas = 2,
                                                 !.data.animate = FALSE] >>],
                     [id |-> 2, name |-> 2, elements |-> <<>>] >>]

\* A project with three elements of differing positions and sizes, none of
\* them under <<20, 20>>
AlignFile ==
    [ok |-> TRUE, current_canvas |-> 1,
     canvases |-> << [id |-> 1, name |-> 1,
                      elements |-> << [SampleElement("rect", <<24, 26>>, 0)
                                          EXCEPT !.size = <<10, 10>>],
                                      [SampleElement("button", <<30, 44>>, 0)
                                          EXCEPT !.size = <<20, 20>>],
                                      [SampleElement("circle", <<42, 31>>, 0)
                                          EXCEPT !.size = <<6, 20>>] >>] >>]

\* A project with an element under each of the two pointer positions and a
\* third under neither
FrameFile ==
    [ok |-> TRUE, current_canvas |-> 1,
     canvases |-> << [id |-> 1, name |-> 1,
                      elements |-> << [SampleElement("rect", <<15, 15>>, 0)
                                          EXCEPT !.size = <<10, 10>>],
                                      [SampleElement("button", <<45, 50>>, 0)
                                          EXCEPT !.size = <<20, 20>>],
                                      [SampleElement("circle", <<70, 90>>, 0)
                                          EXCEPT !.size = <<6, 20>>] >>] >>]

\* A project whose file lists canvas 2 before canvas 1
SwappedFile ==
    [ok |-> TRUE, current_canvas |-> 2,
     canvases |-> << [id |-> 2, name |-> 2, elements |-> <<>>],
                     [id |-> 1, name |-> 1, elements |-> <<>>] >>]

\* Project files other than the one save_project wrote: one whose elements differ
\* in z_value, one with no canvases, one with an element of no known type, one
\* with a link
SampleFiles ==
    { [ok |-> TRUE, current_canvas |-> 1,
       canvases |-> << [id |-> 1, name |-> 1,
                        elements |-> << SampleElement("rect", <<20, 20>>, 1),
                                        SampleElement("circle", <<20, 20>>, 0),
                                        SampleElement("button", <<50, 60>>, 0) >>] >>],
      [ok |-> TRUE, current_canvas |-> 1, canvases |-> <<>>],
      [ok |-> TRUE, current_canvas |-> 2,
       canvases |-> << [id |-> 2, name |-> 2, elements |-> <<>>],
                       [id |-> 1, name |-> 1,
                        elements |-> << SampleElement("bogus", <<20, 20>>, 0) >>] >>],
      LinkFile }

\* The project files at hand
ProjectFiles == SampleFiles \cup {AlignFile, SwappedFile, FrameFile}

\* What save_project writes: the project, or a broken file when json.dump raises
\* part-way through (the file was opened for writing and holds a fragment)
SavedFile(int_flags) ==
    LET proj == [k \in DOMAIN canvases |->
                    LET c == tabs[canvases[k][2]]
                    IN  [id |-> canvases[k][1], name |-> c.name,
                         elements |-> [i \in DOMAIN c.elements |-> to_dict(c.elements[i])]]]
    IN  IF \A k \in DOMAIN proj : \A i \in DOMAIN proj[k].elements :
               JsonSerializable(proj[k].elements[i], int_flags)
        THEN [ok |-> TRUE, canvases |-> proj, current_canvas |-> current_canvas_id]
        ELSE NoProject

\* The elements of one canvas record, decoded in order with ids from id on
LoadedElements(ds, id) == [i \in DOMAIN ds |-> from_dict(ds[i], id + i - 1)]

\* ElementType(data['type']) raises on a value that names no type
Decodable(pc) == \A i \in DOMAIN pc.elements : pc.elements[i].type \in ElementType

RECURSIVE LoadCanvases(_, _, _)
\* The loop of open_project over the file's canvases, from the state st
\* ([tabs, canvases, canvas_list, tab_index, current_canvas_id, next_id, failed]);
\* an exception ends it where it is
LoadCanvases(pcs, k, st) ==
    IF k > Len(pcs) THEN st
    ELSE IF ~Decodable(pcs[k]) THEN [st EXCEPT !.failed = TRUE]
    ELSE LET pc == pcs[k]
             canvas == [Canvas(pc.id, pc.name)
                           EXCEPT !.elements = LoadedElements(pc.elements, st.next_id)]
             t == Append(st.tabs, canvas)
             \* addTab: the first page becomes the current one (currentChanged)
             first == st.tabs = <<>>
         IN  LoadCanvases(pcs, k + 1,
                [st EXCEPT !.tabs = t,
                           !.canvases = DictSet(@, pc.id, Len(t)),
                           !.canvas_list = Append(@, pc.id),
                           !.tab_index = IF first THEN 1 ELSE @,
                           !.current_canvas_id = IF first THEN pc.id ELSE @,
                           !.next_id = @ + Len(pc.elements)])

\* open_project on a file json.load accepts
LoadProject(f) ==
    LET cleared == [tabs |-> <<>>, canvases |-> <<>>, canvas_list |-> <<>>,
                    tab_index |-> 0,
                    \* removeTab(0) until none is left: currentChanged follows the
                    \* current page to the last one
                    current_canvas_id |-> on_tab_changed(tabs, Len(tabs), current_canvas_id),
                    next_id |-> next_id, failed |-> FALSE]
        st == LoadCanvases(f.canvases, 1, cleared)
        cur == f.current_canvas
        i == FirstTabOf(st.tabs, cur)
    IN  IF ~st.failed /\ cur # 0 /\ CanvasTab(st.canvases, cur) # 0 /\ i # 0
        THEN [st EXCEPT !.tab_index = i, !.current_canvas_id = cur]
        ELSE st

FileElements(f) ==
    Sum([k \in DOMAIN f.canvases |-> Len(f.canvases[k].elements)])

-----------------------------------------------------------------------------
(* The state after MainWindow.__init__ *)

Init ==
    /\ current_tool = "select"
    /\ tabs = <<Canvas(1, 1)>>
    /\ tab_index = 1
    /\ canvases = << <<1, 1>> >>
    /\ canvas_list = <<1>>
    /\ current_canvas_id = 1
    /\ canvas_counter = 2
    /\ timers = <<>>
    /\ file = NoProject
    /\ next_id = 1

WindowUnchanged ==
    UNCHANGED <<tab_index, canvases, canvas_list, current_canvas_id, canvas_counter,
                timers, file>>

\* The visible canvas becomes c
SetVisible(c) == tabs' = [tabs EXCEPT ![tab_index] = c]

\* Mutant: the press never looks for a link
OnLink_Never(pos) == FALSE

\* The topmost element under pos on the visible canvas is a link
OnLink(pos) ==
    LET i == get_element_at(Visible, pos)
    IN  i # 0 /\ Visible.elements[i].element_type = "link"

-----------------------------------------------------------------------------
(* Canvas events, delivered to the visible canvas *)

\* mousePressEvent, left button, on a link: navigate_to_canvas when the link
\* names a target, and nothing else
MousePressLink(pos) ==
    /\ tab_index # 0
    /\ OnLink(pos)
    /\ LET e == Visible.elements[get_element_at(Visible, pos)]
           target == e.data.target_canvas
           r == navigate_to_canvas(tabs, canvases, tab_index, current_canvas_id,
                                   timers, target, e.data.animate)
       IN  /\ Animates(tabs, canvases, tab_index, target, e.data.animate)
                => Len(timers) < MaxTimers
           /\ tab_index' = IF target # 0 THEN r.tab_index ELSE tab_index
           /\ current_canvas_id' = IF target # 0 THEN r.current_canvas_id
                                   ELSE current_canvas_id
           /\ timers' = IF target # 0 THEN r.timers ELSE timers
    /\ UNCHANGED <<current_tool, tabs, canvases, canvas_list, canvas_counter, file, next_id>>

\* mousePressEvent, left button, not on a link
MousePressLeft(pos, ctrl) ==
    /\ tab_index # 0
    /\ ~OnLink(pos)
    /\ PressAllocates(current_tool, "left") => next_id <= MaxIds
    /\ SetVisible(IF current_tool = "select" THEN PressSelect(Visible, pos, ctrl)
                  ELSE PressDraw(Visible, current_tool, pos, next_id))
    /\ next_id' = IF PressAllocates(current_tool, "left") THEN next_id + 1 ELSE next_id
    /\ UNCHANGED current_tool
    /\ WindowUnchanged

\* mousePressEvent, middle button
MousePressMiddle(pos) ==
    /\ tab_index # 0
    /\ PressAllocates(current_tool, "middle") => next_id <= MaxIds
    /\ SetVisible(PressOther(Visible, current_tool, pos, next_id))
    /\ next_id' = IF PressAllocates(current_tool, "middle") THEN next_id + 1 ELSE next_id
    /\ UNCHANGED current_tool
    /\ WindowUnchanged

\* The canvas as the right-button press leaves it before the context menu
BeforeMenu(pos) == PressOther(Visible, current_tool, pos, next_id)

RightPressCommon(pos) ==
    /\ tab_index # 0
    /\ PressAllocates(current_tool, "right") => next_id <= MaxIds
    /\ next_id' = IF PressAllocates(current_tool, "right") THEN next_id + 1 ELSE next_id

\* mousePressEvent, right button: no element under the pointer, or the context
\* menu dismissed
MousePressRight(pos) ==
    /\ RightPressCommon(pos)
    /\ SetVisible(BeforeMenu(pos))
    /\ UNCHANGED current_tool
    /\ WindowUnchanged

\* mousePressEvent, right button, context menu: delete
ContextDelete(pos) ==
    /\ RightPressCommon(pos)
    /\ LET c == BeforeMenu(pos)
           i == get_element_at(c, pos)
       IN  /\ i # 0
           /\ SetVisible(remove_element(c, c.elements[i].id))
    /\ UNCHANGED current_tool
    /\ WindowUnchanged

\* mousePressEvent, right button, context menu: edit
ContextEdit(pos, in) ==
    /\ RightPressCommon(pos)
    /\ LET c == BeforeMenu(pos)
           i == get_element_at(c, pos)
       IN  /\ i # 0
           /\ SetVisible(edit_element(c, i, in))
    /\ UNCHANGED current_tool
    /\ WindowUnchanged

\* mousePressEvent, right button, context menu: align
ContextAlign(pos, choice) ==
    /\ RightPressCommon(pos)
    /\ LET c == BeforeMenu(pos)
       IN  /\ get_element_at(c, pos) # 0
           /\ choice # "cancel" => AlignExact(c, choice)
           /\ SetVisible(show_alignment_dialog(c, choice))
    /\ UNCHANGED current_tool
    /\ WindowUnchanged

\* mousePressEvent, right button, context menu: create link.  The element is
\* selected, then create_link_dialog(element): target is the canvas picked in
\* the dialog, 0 when the dialog is cancelled or nothing is picked.
ContextLink(pos, target, animate) ==
    /\ RightPressCommon(pos)
    /\ LET c == BeforeMenu(pos)
           i == get_element_at(c, pos)
           c1 == select_element(c, c.elements[i].id, FALSE)
       IN  /\ i # 0
           /\ target \in LinkTargets(canvases, current_canvas_id) \cup {0}
           /\ IF get_current_canvas = 0
              THEN SetVisible(c1) /\ UNCHANGED current_tool
              ELSE /\ SetVisible(IF target # 0
                                 THEN [c1 EXCEPT !.elements[i] = LinkElement(@, target, animate)]
                                 ELSE c1)
                   /\ current_tool' = "select"
    /\ WindowUnchanged

\* mouseMoveEvent
MouseMove(pos) ==
    /\ tab_index # 0
    /\ (Visible.drawing /\ current_tool = "line") => Len(Visible.current_points) < MaxPoints
    /\ InRange(mouseMoveEvent(Visible, current_tool, pos))
    /\ SetVisible(mouseMoveEvent(Visible, current_tool, pos))
    /\ UNCHANGED <<current_tool, next_id>>
    /\ WindowUnchanged

\* mouseReleaseEvent, left button
MouseRelease ==
    /\ tab_index # 0
    /\ ReleaseAllocates(Visible, current_tool) => next_id <= MaxIds
    /\ SetVisible(mouseReleaseEvent(Visible, current_tool, next_id))
    /\ next_id' = IF ReleaseAllocates(Visible, current_tool) THEN next_id + 1 ELSE next_id
    /\ UNCHANGED current_tool
    /\ WindowUnchanged

\* Canvas.mouseDoubleClickEvent, left button
MouseDoubleClick(pos, in) ==
    /\ tab_index # 0
    /\ get_element_at(Visible, pos) # 0
    /\ SetVisible(edit_element(Visible, get_element_at(Visible, pos), in))
    /\ UNCHANGED <<current_tool, next_id>>
    /\ WindowUnchanged

\* keyPressEvent: Delete, through the Edit menu's action and its shortcut, on
\* get_current_canvas()
RECURSIVE RemoveAll(_, _)
RemoveAll(c, ids) ==
    IF ids = <<>> THEN c ELSE RemoveAll(remove_element(c, Head(ids)), Tail(ids))

\* Mutant: Delete removes only the first selected element
keyPressEvent_Delete_First(c) ==
    IF c.selected_elements # <<>>
    THEN remove_element(c, Head(c.selected_elements))
    ELSE c

keyPressEvent_Delete(c) ==
    IF c.selected_elements # <<>> THEN RemoveAll(c, c.selected_elements) ELSE c

KeyDelete ==
    /\ get_current_canvas # 0
    /\ tabs' = [tabs EXCEPT ![get_current_canvas] = keyPressEvent_Delete(@)]
    /\ UNCHANGED <<current_tool, next_id>>
    /\ WindowUnchanged

\* keyPressEvent: Escape
KeyEscape ==
    /\ tab_index # 0
    /\ SetVisible(clear_selection(Visible))
    /\ UNCHANGED <<current_tool, next_id>>
    /\ WindowUnchanged

-----------------------------------------------------------------------------
(* MainWindow: tools, tabs, navigation, persistence *)

\* select_tool(tool_id), for the tools that open no dialog
SelectTool(tool_id) ==
    /\ tool_id \notin {"image", "link"}
    /\ current_tool' = tool_id
    /\ UNCHANGED <<tabs, next_id>>
    /\ WindowUnchanged

\* Canvas.load_image of an existing file: the element it adds
ImageElement(id) ==
    [CanvasElement(id, "image", <<50, 50>>) EXCEPT !.size = <<64, 48>>]

\* select_tool("image"): load_image_dialog; chosen: a file was picked
SelectImageTool(chosen) ==
    /\ chosen => next_id <= MaxIds
    /\ IF chosen /\ get_current_canvas # 0
       THEN /\ tabs' = [tabs EXCEPT ![get_current_canvas] =
                            add_element(@, ImageElement(next_id))]
            /\ next_id' = next_id + 1
            /\ current_tool' = "select"
       ELSE /\ current_tool' = "image"
            /\ UNCHANGED <<tabs, next_id>>
    /\ WindowUnchanged

\* create_link_dialog() on the selected elements of canvas c
LinkSelected(c, target, animate) ==
    [c EXCEPT !.elements =
        [i \in DOMAIN @ |-> IF @[i].id \in Range(c.selected_elements)
                            THEN LinkElement(@[i], target, animate) ELSE @[i]]]

\* select_tool("link"): create_link_dialog() when the current canvas has a
\* selection; the tool ends as "select" whatever the dialog's outcome
SelectLinkTool(target, animate) ==
    /\ target \in LinkTargets(canvases, current_canvas_id) \cup {0}
    /\ IF get_current_canvas # 0 /\ target # 0
          /\ tabs[get_current_canvas].selected_elements # <<>>
       THEN tabs' = [tabs EXCEPT ![get_current_canvas] = LinkSelected(@, target, animate)]
       ELSE UNCHANGED tabs
    /\ current_tool' = "select"
    /\ UNCHANGED next_id
    /\ WindowUnchanged

\* MainWindow.show_alignment_dialog (the toolbar's align button)
AlignButton(choice) ==
    /\ get_current_canvas # 0
    /\ choice # "cancel" => AlignExact(tabs[get_current_canvas], choice)
    /\ tabs' = [tabs EXCEPT ![get_current_canvas] = show_alignment_dialog(@, choice)]
    /\ UNCHANGED <<current_tool, next_id>>
    /\ WindowUnchanged

\* MainWindow.mouseDoubleClickEvent
WindowDoubleClick(pos, in) ==
    /\ get_current_canvas # 0
    /\ get_element_at(tabs[get_current_canvas], pos) # 0
    /\ tabs' = [tabs EXCEPT ![get_current_canvas] =
                    edit_element(@, get_element_at(@, pos), in)]
    /\ UNCHANGED <<current_tool, next_id>>
    /\ WindowUnchanged

\* create_new_canvas -> create_canvas
CreateCanvas ==
    /\ Len(tabs) < MaxTabs
    /\ canvas_counter < MaxCounter
    /\ tabs' = Append(tabs, Canvas(canvas_counter, canvas_counter))
    /\ canvases' = DictSet(canvases, canvas_counter, Len(tabs) + 1)
    /\ canvas_list' = Append(canvas_list, canvas_counter)
    /\ tab_index' = Len(tabs) + 1
    /\ current_canvas_id' = canvas_counter
    /\ canvas_counter' = canvas_counter + 1
    /\ UNCHANGED <<current_tool, timers, file, next_id>>

\* takeItem of the first item that holds canvas_id
TakeItem(items, canvas_id) ==
    IF canvas_id \in Range(items)
    THEN RemoveAt(items, SetMin({k \in DOMAIN items : items[k] = canvas_id}))
    ELSE items

\* close_canvas_tab: current_canvas_id once the page is removed; t: the pages left
CurrentAfterClose(t, cur_id) == IF t # <<>> THEN t[1].canvas_id ELSE cur_id

\* close_canvas_tab(index)
CloseTab(index) ==
    /\ index \in DOMAIN tabs
    /\ tabs' = RemoveAt(tabs, index)
    /\ canvases' = DictShift(DictDel(canvases, tabs[index].canvas_id), index)
    /\ canvas_list' = TakeItem(canvas_list, tabs[index].canvas_id)
    /\ tab_index' = IF Len(tabs) > 1 THEN 1 ELSE 0
    /\ current_canvas_id' = CurrentAfterClose(RemoveAt(tabs, index), current_canvas_id)
    /\ UNCHANGED <<current_tool, canvas_counter, timers, file, next_id>>

\* A click on a tab: the tab widget's setCurrentIndex, then on_tab_changed
TabClick(index) ==
    /\ index \in DOMAIN tabs
    /\ index # tab_index
    /\ tab_index' = setCurrentIndex(tabs, index, tab_index, current_canvas_id).tab_index
    /\ current_canvas_id' =
           setCurrentIndex(tabs, index, tab_index, current_canvas_id).current_canvas_id
    /\ UNCHANGED <<current_tool, tabs, canvases, canvas_list, canvas_counter, timers,
                   file, next_id>>

\* switch_canvas(item): a click on item k of the canvas list
SwitchCanvas(k) ==
    /\ k \in DOMAIN canvas_list
    /\ LET canvas_id == canvas_list[k]
           i == FirstTabOf(tabs, canvas_id)
       IN  IF CanvasTab(canvases, canvas_id) # 0 /\ i # 0
           THEN tab_index' = i /\ current_canvas_id' = canvas_id
           ELSE UNCHANGED <<tab_index, current_canvas_id>>
    /\ UNCHANGED <<current_tool, tabs, canvases, canvas_list, canvas_counter, timers,
                   file, next_id>>

\* save_project, a path chosen; int_flags: the binding in use makes Qt's flags ints
SaveProject(int_flags) ==
    /\ file' = SavedFile(int_flags)
    /\ UNCHANGED <<current_tool, tabs, tab_index, canvases, canvas_list,
                   current_canvas_id, canvas_counter, timers, next_id>>

\* open_project, the file f chosen: the one save_project wrote or a sample
OpenProject(f) ==
    /\ f \in {file} \cup ProjectFiles
    /\ Len(f.canvases) <= MaxTabs
    /\ next_id + FileElements(f) <= MaxIds + 1
    /\ IF f.ok
       THEN LET st == LoadProject(f)
            IN  /\ tabs' = st.tabs
                /\ canvases' = st.canvases
                /\ canvas_list' = st.canvas_list
                /\ tab_index' = st.tab_index
                /\ current_canvas_id' = st.current_canvas_id
                /\ next_id' = st.next_id
       ELSE UNCHANGED <<tabs, canvases, canvas_list, tab_index, current_canvas_id, next_id>>
    /\ UNCHANGED <<current_tool, canvas_counter, timers, file>>

\* A single-shot timer of animate_tab_transition fires: the oldest first
TimerFire ==
    /\ timers # <<>>
    /\ LET r == step_transition(tabs, tab_index, current_canvas_id, Head(timers))
       IN  /\ tab_index' = r.tab_index
           /\ current_canvas_id' = r.current_canvas_id
           /\ timers' = Tail(timers) \o r.next
    /\ UNCHANGED <<current_tool, tabs, canvases, canvas_list, canvas_counter, file, next_id>>

-----------------------------------------------------------------------------

Next ==
    \/ \E pos \in Pts : MousePressLink(pos)
    \/ \E pos \in Pts, ctrl \in BOOLEAN : MousePressLeft(pos, ctrl)
    \/ \E pos \in Pts : MousePressMiddle(pos)
    \/ \E pos \in Pts : MousePressRight(pos)
    \/ \E pos \in Pts : ContextDelete(pos)
    \/ \E pos \in Pts, in \in EditInputs : ContextEdit(pos, in)
    \/ \E pos \in Pts, choice \in AlignmentType \cup {"cancel"} : ContextAlign(pos, choice)
    \/ \E pos \in Pts, target \in 0..MaxCounter, animate \in BOOLEAN :
           ContextLink(pos, target, animate)
    \/ \E pos \in Pts : MouseMove(pos)
    \/ MouseRelease
    \/ \E pos \in Pts, in \in EditInputs : MouseDoubleClick(pos, in)
    \/ KeyDelete
    \/ KeyEscape
    \/ \E tool_id \in Tools : SelectTool(tool_id)
    \/ \E chosen \in BOOLEAN : SelectImageTool(chosen)
    \/ \E target \in 0..MaxCounter, animate \in BOOLEAN : SelectLinkTool(target, animate)
    \/ \E choice \in AlignmentType \cup {"cancel"} : AlignButton(choice)
    \/ \E pos \in Pts, in \in EditInputs : WindowDoubleClick(pos, in)
    \/ CreateCanvas
    \/ \E index \in 1..MaxTabs : CloseTab(index)
    \/ \E index \in 1..MaxTabs : TabClick(index)
    \/ \E k \in 1..MaxTabs : SwitchCanvas(k)
    \/ \E int_flags \in BOOLEAN : SaveProject(int_flags)
    \/ \E f \in {file} \cup ProjectFiles : OpenProject(f)
    \/ TimerFire

Spec == Init /\ [][Next]_vars

-----------------------------------------------------------------------------
(* Scenarios.  Spec lets every event happen in every state; the scenarios   *)
(* below are Spec with the events limited to one part of the program and    *)
(* the toolbar to a palette, each small enough to enumerate.  The toolbar,  *)
(* the tab bar and the menus are reached with the pointer, between the      *)
(* gestures on the canvas: the canvas holds the mouse while a button is     *)
(* down on it.                                                              *)

\* elements drawn in an editing scenario
MaxDrawn == 2

\* No gesture is in progress on canvas c
Idle(c) == ~c.drawing /\ ~c.dragging /\ c.selection_start = None

\* No gesture is in progress on the visible canvas, if there is one
Between == IF tab_index = 0 THEN TRUE ELSE Idle(Visible)

\* The step constructs no element beyond the scenario's bound
Drawn == next_id' = next_id \/ next_id' <= MaxDrawn + 1

ClickTools == {"point", "text", "button", "input", "menu", "icon"}

\* One canvas, the select tool and the single-click tools
NextCanvas ==
    \/ \E pos \in Pts, ctrl \in BOOLEAN : MousePressLeft(pos, ctrl) /\ Drawn
    \/ \E pos \in Pts : MouseMove(pos)
    \/ MouseRelease
    \/ \E pos \in Pts : MousePressMiddle(pos) /\ Drawn
    \/ \E pos \in Pts : MousePressRight(pos) /\ Drawn
    \/ \E pos \in Pts : ContextDelete(pos) /\ Drawn
    \/ KeyDelete
    \/ KeyEscape
    \/ \E tool_id \in {"select"} \cup ClickTools : Between /\ SelectTool(tool_id)

SpecCanvas == Init /\ [][NextCanvas]_vars

\* The drag tools, on the first canvas or on a project opened from a file
\* that holds a link
NextDrag ==
    \/ \E pos \in Pts, ctrl \in BOOLEAN : MousePressLeft(pos, ctrl) /\ Drawn
    \/ \E pos \in Pts : MouseMove(pos)
    \/ MouseRelease
    \/ \E pos \in Pts : MousePressLink(pos)
    \/ \E tool_id \in DragTools : Between /\ SelectTool(tool_id)
    \/ Between /\ OpenProject(LinkFile) /\ Drawn

SpecDrag == Init /\ [][NextDrag]_vars

\* Two canvases: buttons placed, selected, moved, deleted, made into links,
\* the links followed at once
NextLinks ==
    \/ \E pos \in Pts, ctrl \in BOOLEAN : MousePressLeft(pos, ctrl) /\ Drawn
    \/ \E pos \in Pts : MouseMove(pos)
    \/ MouseRelease
    \/ \E pos \in Pts : ContextDelete(pos)
    \/ KeyDelete
    \/ KeyEscape
    \/ \E pos \in Pts : MousePressLink(pos)
    \/ \E pos \in Pts, target \in 0..MaxCounter : ContextLink(pos, target, FALSE)
    \/ \E target \in 0..MaxCounter : Between /\ SelectLinkTool(target, FALSE)
    \/ \E tool_id \in {"select", "button"} : Between /\ SelectTool(tool_id)
    \/ Between /\ CreateCanvas
    \/ \E index \in 1..MaxTabs : Between /\ TabClick(index)

SpecLinks == Init /\ [][NextLinks]_vars

\* Two canvases: buttons placed, edited, made into links, deleted
NextEdit ==
    \/ \E pos \in Pts : MousePressLeft(pos, FALSE) /\ Drawn
    \/ MouseRelease
    \/ \E pos \in Pts : MousePressRight(pos) /\ Drawn
    \/ \E pos \in Pts : ContextDelete(pos) /\ Drawn
    \/ \E pos \in Pts, in \in EditInputs : ContextEdit(pos, in) /\ Drawn
    \/ \E pos \in Pts, in \in EditInputs : MouseDoubleClick(pos, in)
    \/ \E pos \in Pts : MousePressLink(pos)
    \/ \E pos \in Pts, target \in 0..MaxCounter : ContextLink(pos, target, FALSE) /\ Drawn
    \/ \E target \in 0..MaxCounter : Between /\ SelectLinkTool(target, FALSE)
    \/ \E tool_id \in {"select", "button"} : Between /\ SelectTool(tool_id)
    \/ Between /\ CreateCanvas

SpecEdit == Init /\ [][NextEdit]_vars

\* Two canvases and links, animated or not; while an animation runs nothing
\* happens but its timers, and a timer that is due fires
NextNav ==
    \/ \E pos \in Pts : timers = <<>> /\ MousePressLeft(pos, FALSE) /\ Drawn
    \/ timers = <<>> /\ MouseRelease
    \/ \E pos \in Pts : timers = <<>> /\ MousePressLink(pos)
    \/ \E pos \in Pts, target \in 0..MaxCounter, animate \in BOOLEAN :
           timers = <<>> /\ ContextLink(pos, target, animate)
    \/ \E tool_id \in {"select", "button"} :
           timers = <<>> /\ Between /\ SelectTool(tool_id)
    \/ timers = <<>> /\ Between /\ CreateCanvas
    \/ \E index \in 1..MaxTabs : timers = <<>> /\ Between /\ TabClick(index)
    \/ \E index \in 1..MaxTabs : timers = <<>> /\ Between /\ CloseTab(index)
    \/ TimerFire

SpecNav == Init /\ [][NextNav]_vars /\ WF_vars(TimerFire)

\* Projects saved and opened, tabs opened and closed; elements are drawn and
\* left where they are
NextFiles ==
    \/ \E pos \in Pts : current_tool # "select" /\ MousePressLeft(pos, FALSE) /\ Drawn
    \/ \E pos \in Pts : current_tool # "select" /\ MouseMove(pos)
    \/ current_tool # "select" /\ MouseRelease
    \/ \E tool_id \in {"rect", "text"} : Between /\ SelectTool(tool_id)
    \/ Between /\ CreateCanvas
    \/ \E index \in 1..MaxTabs : Between /\ CloseTab(index)
    \/ \E index \in 1..MaxTabs : Between /\ TabClick(index)
    \/ \E k \in 1..MaxTabs : Between /\ SwitchCanvas(k)
    \/ \E int_flags \in BOOLEAN : Between /\ SaveProject(int_flags)
    \/ \E f \in {file} \cup SampleFiles : Between /\ OpenProject(f)

SpecFiles == Init /\ [][NextFiles]_vars

\* Alignment scenarios: the elements of a project file, or buttons placed on
\* the canvas, are selected (rubber band, click, Ctrl-click) and aligned from
\* the align button or the context menu; no element is dragged.  Each scenario
\* offers the alignments of one family.

\* The edge alignments
EdgeAlignments == {"left", "right", "top", "bottom"}

NextAlign ==
    \/ \E pos \in Pts, ctrl \in BOOLEAN : MousePressLeft(pos, ctrl) /\ Drawn
    \/ \E pos \in Pts : tab_index # 0 /\ ~Visible.dragging /\ MouseMove(pos)
    \/ MouseRelease
    \/ \E choice \in EdgeAlignments : Between /\ AlignButton(choice)
    \/ \E pos \in Pts, choice \in EdgeAlignments : Between /\ ContextAlign(pos, choice)
    \/ \E pos \in Pts : Between /\ ContextDelete(pos)
    \/ \E tool_id \in {"select", "button"} : Between /\ SelectTool(tool_id)
    \/ Between /\ OpenProject(AlignFile)

SpecAlign == Init /\ [][NextAlign]_vars

\* The centre alignments
CentreAlignments == {"center_h", "center_v", "center"}

NextCentre ==
    \/ \E pos \in Pts, ctrl \in BOOLEAN : MousePressLeft(pos, ctrl) /\ Drawn
    \/ \E pos \in Pts : tab_index # 0 /\ ~Visible.dragging /\ MouseMove(pos)
    \/ MouseRelease
    \/ \E choice \in CentreAlignments : Between /\ AlignButton(choice)
    \/ \E pos \in Pts, choice \in CentreAlignments : Between /\ ContextAlign(pos, choice)
    \/ \E pos \in Pts : Between /\ ContextDelete(pos)
    \/ \E tool_id \in {"select", "button"} : Between /\ SelectTool(tool_id)
    \/ Between /\ OpenProject(AlignFile)

SpecCentre == Init /\ [][NextCentre]_vars

\* The distributions, and the two edge alignments that keep them in the same area
Distributions == {"distribute_h", "distribute_v", "left", "top"}

NextDistribute ==
    \/ \E pos \in Pts, ctrl \in BOOLEAN : MousePressLeft(pos, ctrl) /\ Drawn
    \/ \E pos \in Pts : tab_index # 0 /\ ~Visible.dragging /\ MouseMove(pos)
    \/ MouseRelease
    \/ \E choice \in Distributions : Between /\ AlignButton(choice)
    \/ \E pos \in Pts, choice \in Distributions : Between /\ ContextAlign(pos, choice)
    \/ \E pos \in Pts : Between /\ ContextDelete(pos)
    \/ \E tool_id \in {"select", "button"} : Between /\ SelectTool(tool_id)
    \/ Between /\ OpenProject(AlignFile)

SpecDistribute == Init /\ [][NextDistribute]_vars

\* Links followed while the user goes on working: while an animation runs its
\* timers fire and the tabs are clicked and closed, canvases created, projects
\* opened and links pressed; buttons are placed and made animated links between
\* animations
NextRace ==
    \/ timers = <<>> /\ MousePressLeft(<<50, 60>>, FALSE) /\ Drawn
    \/ timers = <<>> /\ MouseRelease
    \/ \E pos \in Pts : MousePressLink(pos)
    \/ \E pos \in Pts, target \in 1..MaxCounter :
           timers = <<>> /\ ContextLink(pos, target, TRUE)
    \/ timers = <<>> /\ Between /\ SelectTool("button")
    \/ Between /\ CreateCanvas
    \/ \E index \in 1..MaxTabs : Between /\ TabClick(index)
    \/ \E index \in 1..MaxTabs : Between /\ CloseTab(index)
    \/ Between /\ OpenProject(SwappedFile)
    \/ TimerFire

SpecRace == Init /\ [][NextRace]_vars /\ WF_vars(TimerFire)

\* Gestures with a drag tool and the select tool, the context menu's link
\* dialog opened with the right button at any time; the toolbar is reached
\* between gestures, and the left button, once down, goes up before it goes
\* down again
NextGesture ==
    \/ \E pos \in Pts : Between /\ MousePressLeft(pos, FALSE) /\ Drawn
    \/ \E pos \in Pts : MouseMove(pos)
    \/ MouseRelease
    \/ \E pos \in Pts : MousePressRight(pos) /\ Drawn
    \/ \E pos \in Pts, target \in 0..MaxCounter : ContextLink(pos, target, TRUE) /\ Drawn
    \/ \E tool_id \in {"select", "rect", "button"} : Between /\ SelectTool(tool_id)
    \/ Between /\ CreateCanvas

SpecGesture == Init /\ [][NextGesture]_vars

\* Lines drawn with the straight and the freehand tool, then picked at one
\* spot with the select tool and dragged one at a time, or aligned from the
\* toolbar
NextMove ==
    \/ \E pos \in Pts, ctrl \in BOOLEAN : /\ Between
                                          /\ (current_tool = "select" => pos = <<20, 20>>)
                                          /\ MousePressLeft(pos, ctrl) /\ Drawn
    \/ \E pos \in Pts : /\ tab_index # 0
                         /\ (Visible.dragging => Len(Visible.selected_elements) = 1)
                         /\ MouseMove(pos)
    \/ MouseRelease
    \/ \E choice \in {"left", "center"} : Between /\ AlignButton(choice)
    \/ \E tool_id \in {"select", "straight", "line"} : Between /\ SelectTool(tool_id)

SpecMove == Init /\ [][NextMove]_vars

\* The edge alignments on a project of three elements of which the pointer
\* reaches two
NextFrame ==
    \/ \E pos \in Pts, ctrl \in BOOLEAN : Between /\ MousePressLeft(pos, ctrl) /\ Drawn
    \/ \E pos \in Pts : tab_index # 0 /\ ~Visible.dragging /\ MouseMove(pos)
    \/ MouseRelease
    \/ \E choice \in EdgeAlignments : Between /\ AlignButton(choice)
    \/ \E pos \in Pts, choice \in EdgeAlignments : Between /\ ContextAlign(pos, choice)
    \/ \E pos \in Pts : Between /\ ContextDelete(pos)
    \/ Between /\ OpenProject(FrameFile)

SpecFrame == Init /\ [][NextFrame]_vars

-----------------------------------------------------------------------------
(* Properties *)

\* All the elements the canvases hold
AllElements(t) == UNION {Range(t[i].elements) : i \in DOMAIN t}

\* C1: on every canvas, every element of selected_elements is one of that
\* canvas's elements
C1_SelectionInElements ==
    \A i \in DOMAIN tabs : Range(tabs[i].selected_elements) \subseteq ElementIds(tabs[i])

\* C1 witness: an element is selected on a canvas from which another element
\* has been removed
C1_Witness ==
    /\ Len(tabs) = 1
    /\ Len(tabs[1].elements) = 1
    /\ tabs[1].selected_elements = <<tabs[1].elements[1].id>>
    /\ next_id = 3
    /\ tabs[1].elements[1].id = 2

\* C2 as stated: current_canvas_id is always a key of canvases
C2_CurrentIsOpen == current_canvas_id \in Keys(canvases)

\* A step of create_link_dialog: the context menu's "create link", or the
\* link tool picked in the toolbar
LinkCreation ==
    \/ \E pos \in Pts, target \in 0..MaxCounter, animate \in BOOLEAN :
           ContextLink(pos, target, animate)
    \/ \E target \in 0..MaxCounter, animate \in BOOLEAN : SelectLinkTool(target, animate)

C4_ClickPlacesOne ==
    [][\A pos \in Pts, ctrl \in BOOLEAN :
          (current_tool \in ClickTools /\ MousePressLeft(pos, ctrl))
              => LET c == tabs[tab_index]
                     d == tabs'[tab_index]
                 IN  /\ Len(d.elements) = Len(c.elements) + 1
                     /\ SubSeq(d.elements, 1, Len(c.elements)) = c.elements
                     /\ d.elements[Len(d.elements)].element_type = current_tool
                     /\ d.elements[Len(d.elements)].position = pos
                     /\ ~d.drawing]_vars

\* The press has made a new in-progress element of the tool's type at pos,
\* which is not in elements
PressStartsShape(pos) ==
    LET c == tabs[tab_index]
        d == tabs'[tab_index]
    IN  /\ d.current_element # None
        /\ d.current_element[1].id = next_id
        /\ d.current_element[1].element_type = current_tool
        /\ d.current_element[1].position = pos
        /\ next_id \notin ElementIds(d)
        /\ d.elements = c.elements
        /\ d.drawing

\* The move has changed nothing of the canvas but the in-progress element,
\* which is the same object and is not in elements
MoveShapesOnly(pos) ==
    LET c == tabs[tab_index]
        d == tabs'[tab_index]
    IN  /\ d.current_element # None
        /\ d.current_element[1].id = c.current_element[1].id
        /\ d.current_element[1].data.end = pos
        /\ d = [c EXCEPT !.current_element = d.current_element]
        /\ d.current_element[1].id \notin ElementIds(d)
        /\ \A i \in DOMAIN tabs : i # tab_index => tabs'[i] = tabs[i]

\* The release has appended the in-progress element to elements and cleared
\* the in-progress state
ReleaseAppendsOnce ==
    LET c == tabs[tab_index]
        d == tabs'[tab_index]
    IN  /\ d.elements = Append(c.elements, c.current_element[1])
        /\ d.current_element = None
        /\ ~d.drawing

\* A shape is in progress on the visible canvas
ShapeInProgress ==
    /\ tab_index # 0
    /\ current_tool \in DragTools
    /\ Visible.drawing
    /\ Visible.current_element # None

\* No move and no release of a gesture with a drag tool ends otherwise than
\* C5 says
DragCompletes ==
    /\ \A pos \in Pts :
           ShapeInProgress => ~ENABLED (MouseMove(pos) /\ ~MoveShapesOnly(pos))
    /\ ShapeInProgress => ~ENABLED (MouseRelease /\ ~ReleaseAppendsOnce)

\* C5, amended: with a drag tool, a left press that is not on a link creates
\* an in-progress element that is not in elements; moves change only that
\* element; the release appends it to elements once and clears current_element
\* and drawing.  (No step of the three handlers ends otherwise.)
C5_DragGesture ==
    /\ \A pos \in Pts, ctrl \in BOOLEAN :
           current_tool \in DragTools
               => ~ENABLED (MousePressLeft(pos, ctrl) /\ ~PressStartsShape(pos))
    /\ DragCompletes

\* C5 witness: a rectangle dragged from <<20, 20>> to <<50, 60>> is in
\* elements, and nothing is in progress
C5_Witness ==
    /\ tab_index # 0
    /\ ~Visible.drawing
    /\ Visible.current_element = None
    /\ \E e \in Range(Visible.elements) :
           /\ e.element_type = "rect"
           /\ e.size = <<30, 40>>
           /\ e.data.end = <<50, 60>>

\* C5 as stated: every left press with a drag tool, one on a link included,
\* creates an in-progress element
C5_AnyPress ==
    /\ \A pos \in Pts, ctrl \in BOOLEAN :
           current_tool \in DragTools
               => ~ENABLED ((MousePressLeft(pos, ctrl) \/ MousePressLink(pos))
                               /\ ~PressStartsShape(pos))
    /\ DragCompletes

\* C6 as stated: with the select tool, a drag that began on a resize handle of
\* the one selected element changes that element's size
C6_HandleDragResizes ==
    [][\A pos \in Pts :
          (/\ current_tool = "select"
           /\ Visible.dragging
           /\ Len(Visible.selected_elements) = 1
           /\ pos # Visible.drag_start
           /\ \E e \in Range(Visible.elements) :
                  /\ e.id = Visible.selected_elements[1]
                  /\ get_resize_handle(Visible.drag_start, get_bounds(e)) # -1
           /\ MouseMove(pos))
              => \E e \in Range(tabs[tab_index].elements),
                    f \in Range(tabs'[tab_index].elements) :
                     /\ e.id = Visible.selected_elements[1]
                     /\ f.id = e.id
                     /\ f.size # e.size]_vars

\* What C7 compares of an element: all but the object's identity
Content(e) ==
    [type |-> e.element_type, position |-> e.position, size |-> e.size,
     color |-> e.color, z_value |-> e.z_value, end |-> EndOf(e),
     points |-> e.data.points, payload |-> e.data.payload,
     alignment |-> e.data.alignment, target_canvas |-> e.data.target_canvas,
     animate |-> e.data.animate]

\* The project as the window holds it: per key of canvases, in order, the
\* identifier, the name and the elements' contents
Project(t, d) ==
    [k \in DOMAIN d |->
        [id |-> d[k][1], name |-> t[d[k][2]].name,
         elements |-> [i \in DOMAIN t[d[k][2]].elements |->
                          Content(t[d[k][2]].elements[i])]]]

\* Opening f gives back the project the window holds now
Restores(f) ==
    /\ f.ok
    /\ LET st == LoadProject(f)
       IN  /\ ~st.failed
           /\ Project(st.tabs, st.canvases) = Project(tabs, canvases)
           /\ st.current_canvas_id = current_canvas_id

\* C7 as stated, on a binding whose Qt flags are ints: the file save_project
\* writes, opened, gives back the canvases, their names and elements and the
\* current canvas
C7_SaveOpenRestores == [][SaveProject(TRUE) => Restores(file')]_vars

\* The target of the link under pos is an open canvas
TargetOpen(pos) ==
    LET target == Visible.elements[get_element_at(Visible, pos)].data.target_canvas
    IN  CanvasTab(canvases, target) # 0 /\ FirstTabOf(tabs, target) # 0

\* The tab shown (index of pages t) and the current canvas cur are the canvas id
ShowsIn(index, t, cur, id) ==
    /\ index # 0
    /\ t[index].canvas_id = id
    /\ cur = id

Shows(id) == ShowsIn(tab_index, tabs, current_canvas_id, id)

\* The press on the link under pos has changed no canvas and no tool;
\* without animation the target is shown, with animation a chain of timers
\* runs towards it
Navigated(pos) ==
    LET e == Visible.elements[get_element_at(Visible, pos)]
    IN  /\ UNCHANGED <<tabs, current_tool, next_id>>
        /\ IF e.data.animate /\ ~Shows(e.data.target_canvas)
           THEN /\ timers' # <<>>
                /\ timers'[1].target = e.data.target_canvas
           ELSE ShowsIn(tab_index', tabs', current_canvas_id', e.data.target_canvas)

\* What navigate_to_canvas makes of the state on a press on the link under pos
PressResult(pos) ==
    LET e == Visible.elements[get_element_at(Visible, pos)]
    IN  navigate_to_canvas(tabs, canvases, tab_index, current_canvas_id, timers,
                           e.data.target_canvas, e.data.animate)

\* C8: a left press on a link whose target is open, whatever the tool, changes
\* no canvas; without animation the target is shown in the next state; with
\* animation a chain of timers starts for the target; the press is no step
\* that leaves everything as it was unless the target is shown already; no
\* chain outlasts steps + 1 firings, and every chain ends with the target shown
C8_LinkNavigates ==
    /\ [][\A pos \in Pts :
             (MousePressLink(pos) /\ TargetOpen(pos)) => Navigated(pos)]_vars
    /\ [](\A pos \in Pts :
             (/\ tab_index # 0
              /\ OnLink(pos)
              /\ TargetOpen(pos)
              /\ ~Shows(Visible.elements[get_element_at(Visible, pos)].data.target_canvas))
                 => <<PressResult(pos).tab_index, PressResult(pos).current_canvas_id,
                      PressResult(pos).timers>> # <<tab_index, current_canvas_id, timers>>)
    /\ [](\A k \in DOMAIN timers : timers[k].step <= steps + 1)
    /\ \A id \in 1..MaxCounter :
           (timers # <<>> /\ timers[1].target = id) ~> (timers = <<>> /\ Shows(id))

\* C8 witness: the last timer of an animation towards the first tab is pending
C8_Witness ==
    /\ timers # <<>>
    /\ timers[1].step = steps + 1
    /\ timers[1].to = 1
    /\ current_tool = "button"

\* C9: on every canvas the paint order holds each element once, in ascending
\* z_value, elements of equal z_value in their order in elements
C9_PaintOrder ==
    \A t \in DOMAIN tabs :
        LET c == tabs[t]
            o == PaintOrder(c)
        IN  /\ Len(o) = Len(c.elements)
            /\ Range(o) = DOMAIN c.elements
            /\ \A a, b \in DOMAIN o :
                   a < b => \/ c.elements[o[a]].z_value < c.elements[o[b]].z_value
                            \/ /\ c.elements[o[a]].z_value = c.elements[o[b]].z_value
                               /\ o[a] < o[b]

\* C9 witness: a canvas whose first element is painted last, after two
\* elements of equal z_value
C9_Witness ==
    \E t \in DOMAIN tabs :
        /\ Len(tabs[t].elements) = 3
        /\ PaintOrder(tabs[t]) = <<2, 3, 1>>
        /\ tabs[t].elements[2].z_value = tabs[t].elements[3].z_value

\* The Delete key has left of elements those that were not selected, in their
\* order, and no selection
DeletedSelected ==
    LET c == tabs[get_current_canvas]
        d == tabs'[get_current_canvas]
    IN  /\ d.elements = SelectSeq(c.elements,
                            LAMBDA e : e.id \notin Range(c.selected_elements))
        /\ d.selected_elements = <<>>

\* The context menu's delete has taken the element under pos, and only it, out
\* of elements and selected_elements
DeletedAt(pos) ==
    LET c == BeforeMenu(pos)
        i == get_element_at(c, pos)
        d == tabs'[tab_index]
    IN  /\ d.elements = RemoveAt(c.elements, i)
        /\ d.selected_elements =
               SelectSeq(c.selected_elements, LAMBDA id : id # c.elements[i].id)

\* C10: the Delete key removes every selected element, no other, and leaves
\* the selection empty (a Delete that changes nothing had nothing selected);
\* the context menu's delete removes the element under the pointer, and only
\* it, from elements and selected_elements
C10_Delete ==
    /\ [][KeyDelete => DeletedSelected]_vars
    /\ [](get_current_canvas # 0
            => LET c == tabs[get_current_canvas]
               IN  keyPressEvent_Delete(c) = c => c.selected_elements = <<>>)
    /\ [][\A pos \in Pts : ContextDelete(pos) => DeletedAt(pos)]_vars

\* C10 witness: two elements are selected and the Delete key removes both
C10_Witness ==
    /\ tab_index # 0
    /\ Len(Visible.elements) = 2
    /\ Len(Visible.selected_elements) = 2
    /\ ENABLED (KeyDelete /\ tabs'[tab_index].elements = <<>>)

\* The bounds of the selected elements of canvas c, in selection order
SelectedBounds(c) ==
    LET idx == SelectedIndexes(c)
    IN  [k \in DOMAIN idx |-> get_bounds(c.elements[idx[k]])]

\* Edge alignment of the selection of canvas c: every selected element has the
\* edge on the extreme of the original edges and its other coordinate unchanged
EdgeAligned(c) ==
    LET idx == SelectedIndexes(c)
        b == SelectedBounds(c)
        after(a, k) == align_elements(c, a).elements[idx[k]]
    IN  \A k \in DOMAIN idx :
            LET e == c.elements[idx[k]]
            IN  /\ RectLeft(get_bounds(after("left", k))) =
                       SetMin({RectLeft(b[j]) : j \in DOMAIN b})
                /\ after("left", k).position[2] = e.position[2]
                /\ RectRight(get_bounds(after("right", k))) =
                       SetMax({RectRight(b[j]) : j \in DOMAIN b})
                /\ after("right", k).position[2] = e.position[2]
                /\ RectTop(get_bounds(after("top", k))) =
                       SetMin({RectTop(b[j]) : j \in DOMAIN b})
                /\ after("top", k).position[1] = e.position[1]
                /\ RectBottom(get_bounds(after("bottom", k))) =
                       SetMax({RectBottom(b[j]) : j \in DOMAIN b})
                /\ after("bottom", k).position[1] = e.position[1]

\* C11: whenever two or more elements are selected, LEFT (TOP) puts every left
\* (top) edge on the minimum of the original left (top) edges, RIGHT (BOTTOM)
\* every right (bottom) edge on the maximum of the original right (bottom)
\* edges, and the coordinate on the other axis stays as it was
C11_EdgeAlignment ==
    \A t \in DOMAIN tabs :
        Len(SelectedIndexes(tabs[t])) >= 2 => EdgeAligned(tabs[t])

\* C11 witness: the three elements of the project file, of differing widths,
\* right-aligned on the rightmost original edge, their tops as in the file
C11_Witness ==
    /\ tab_index # 0
    /\ Len(Visible.elements) = 3
    /\ Len(Visible.selected_elements) = 3
    /\ \A i \in 1..3 : RectRight(get_bounds(Visible.elements[i])) = 50
    /\ <<Visible.elements[1].position, Visible.elements[2].position,
         Visible.elements[3].position>> = << <<40, 26>>, <<30, 44>>, <<44, 31>> >>

\* Centre alignment of the selection of canvas c, for the alignments that land
\* on whole coordinates: n times an element's doubled centre is the sum of the
\* original doubled centres (its centre is their mean), the other axis unchanged
CentreAligned(c) ==
    LET idx == SelectedIndexes(c)
        b == SelectedBounds(c)
        n == Len(idx)
        cx2 == Sum([j \in DOMAIN b |-> 2 * b[j].x + b[j].w])
        cy2 == Sum([j \in DOMAIN b |-> 2 * b[j].y + b[j].h])
        after(a, k) == get_bounds(align_elements(c, a).elements[idx[k]])
        OnX(a, k) == n * (2 * after(a, k).x + after(a, k).w) = cx2
        OnY(a, k) == n * (2 * after(a, k).y + after(a, k).h) = cy2
    IN  \A k \in DOMAIN idx :
            /\ AlignExact(c, "center_h") =>
                   OnX("center_h", k) /\ after("center_h", k).y = b[k].y
            /\ AlignExact(c, "center_v") =>
                   OnY("center_v", k) /\ after("center_v", k).x = b[k].x
            /\ AlignExact(c, "center") => OnX("center", k) /\ OnY("center", k)

Distributed(c, a, axis) ==
    LET idx == SelectedIndexes(c)
        n == Len(idx)
        old(k) == c.elements[idx[k]].position
        new(k) == align_elements(c, a).elements[idx[k]].position
        lo == SetMin({old(k)[axis] : k \in DOMAIN idx})
        hi == SetMax({old(k)[axis] : k \in DOMAIN idx})
    IN  IF n = 2 THEN align_elements(c, a) = c
        ELSE \E r \in [DOMAIN idx -> 0..(n - 1)] :
                /\ \A j, k \in DOMAIN idx : j # k => r[j] # r[k]
                /\ \A j, k \in DOMAIN idx : old(j)[axis] < old(k)[axis] => r[j] < r[k]
                /\ \A k \in DOMAIN idx :
                       /\ (n - 1) * new(k)[axis] = (n - 1) * lo + r[k] * (hi - lo)
                       /\ new(k)[3 - axis] = old(k)[3 - axis]
                       /\ r[k] = 0 => new(k) = old(k)
                       /\ r[k] = n - 1 => new(k) = old(k)

IdSeq(c) == [i \in DOMAIN c.elements |-> c.elements[i].id]

\* What get_element_at(point) gives on canvas c is the last element of the list
\* whose bounds contain the point, and None when no element's bounds contain it
HitsLast(c, point) ==
    LET r == get_element_at(c, point)
        holds(i) == RectContains(get_bounds(c.elements[i]), point)
    IN  /\ r \in {0} \cup DOMAIN c.elements
        /\ r # 0 => holds(r) /\ \A j \in DOMAIN c.elements : j > r => ~holds(j)
        /\ r = 0 => \A j \in DOMAIN c.elements : ~holds(j)

\* The list of elements is in the order of addition: a step leaves the elements
\* it keeps in their order and puts the ones it adds after them
AddedLast(c, d) ==
    LET kept == SelectSeq(IdSeq(c), LAMBDA id : id \in Range(IdSeq(d)))
    IN  \E k \in 0..Len(d.elements) :
            /\ SubSeq(IdSeq(d), 1, k) = kept
            /\ \A i \in (k + 1)..Len(d.elements) : IdSeq(d)[i] \notin Range(IdSeq(c))

\* C14: get_element_at(point) gives the most recently added of the elements
\* whose bounding box contains the point, and None when there is none: the
\* list is kept in the order of addition and the last hit in the list is given
C14_HitTesting ==
    /\ [](\A t \in DOMAIN tabs : \A point \in Pts : HitsLast(tabs[t], point))
    /\ [][\A t \in DOMAIN tabs : t \in DOMAIN tabs' => AddedLast(tabs[t], tabs'[t])]_vars

\* C14 witness: two elements hold <<50, 60>>, and a press there with the select
\* tool has selected the one added last
C14_Witness ==
    /\ tab_index # 0
    /\ Len(Visible.elements) = 2
    /\ \A i \in 1..2 : contains_point(Visible.elements[i], <<50, 60>>)
    /\ Visible.elements[1].id < Visible.elements[2].id
    /\ Visible.dragging /\ Visible.drag_start = <<50, 60>>
    /\ Visible.selected_elements = <<Visible.elements[2].id>>

\* C15: the last timer step of an animated navigation leaves the canvas the
\* link named as the current tab and as current_canvas_id, whatever the user
\* did while the animation ran (stated for the animations whose target canvas
\* is still open when they end)
C15_AnimationEndsOnTarget ==
    [][(/\ TimerFire
        /\ Head(timers).step > steps
        /\ CanvasTab(canvases, Head(timers).target) # 0)
          => ShowsIn(tab_index', tabs', current_canvas_id', Head(timers).target)]_vars

\* C16: no two tabs show canvases of the same canvas_id, and every tab's canvas
\* is the one canvases holds under its canvas_id (create_canvas overwrote no
\* entry)
C16_UniqueCanvasIds ==
    /\ \A i, j \in DOMAIN tabs : i # j => tabs[i].canvas_id # tabs[j].canvas_id
    /\ \A i \in DOMAIN tabs : CanvasTab(canvases, tabs[i].canvas_id) = i

\* No gesture is in progress on canvas c: nothing is drawn, dragged or banded
GestureOver(c) ==
    /\ ~c.drawing /\ ~c.dragging
    /\ c.selection_start = None /\ c.selection_rect = None
    /\ c.drag_start = None /\ c.current_element = None

\* C17: in every state a release of the left button leaves no gesture in
\* progress on the canvas, whatever the tool is by then
C17_ReleaseEndsGesture ==
    tab_index # 0 => GestureOver(mouseReleaseEvent(Visible, current_tool, next_id))


\* f is e with its stored geometry displaced as its position is
Displaced(e, f) ==
    LET dx == f.position[1] - e.position[1]
        dy == f.position[2] - e.position[2]
    IN  /\ EndOf(e) # None => EndOf(f) = <<EndOf(e)[1] + dx, EndOf(e)[2] + dy>>
        /\ f.data.points = [k \in DOMAIN e.data.points |->
                               <<e.data.points[k][1] + dx, e.data.points[k][2] + dy>>]

\* C18: moving an element translates its whole drawn geometry: when a straight
\* line, an arrow or a freehand line is dragged with the select tool or
\* aligned, its data['end'] and its data['points'] are displaced by the same
\* delta as its position.
C18_MoveTranslatesGeometry ==
    [][(\/ \E pos \in Pts : MouseMove(pos) /\ current_tool = "select"
        \/ \E choice \in AlignmentType : AlignButton(choice))
          => \A t \in DOMAIN tabs : \A i \in DOMAIN tabs[t].elements :
                tabs[t].elements[i].element_type \in {"straight", "arrow", "line"}
                    => Displaced(tabs[t].elements[i], tabs'[t].elements[i])]_vars


\* The index in elements of the element paintEvent draws last among those whose
\* bounds contain the point, 0 if none does
PaintedLast(c, point) ==
    LET hits == {i \in DOMAIN c.elements : contains_point(c.elements[i], point)}
        o == PaintOrder(c)
    IN  IF hits = {} THEN 0
        ELSE o[SetMax({k \in DOMAIN o : o[k] \in hits})]

\* C19: hit-testing checks elements top-down: on every canvas, loaded from a
\* project file with differing z_value entries or not, get_element_at(point)
\* is the element painted last among those whose bounds contain the point.
C19_HitTestTopmost ==
    \A t \in DOMAIN tabs : \A point \in Pts :
        get_element_at(tabs[t], point) = PaintedLast(tabs[t], point)


\* open_project raises on file f: json.load rejects it, or one of its element
\* records cannot be decoded
LoadFails(f) == ~f.ok \/ \E k \in DOMAIN f.canvases : ~Decodable(f.canvases[k])

\* C20: if open_project fails after a file was chosen (invalid JSON, or an
\* element record that cannot be decoded), the open canvases, their elements,
\* the tabs and current_canvas_id are the same as before the call.
C20_FailedOpenKeepsProject ==
    [][(\E f \in {file} \cup ProjectFiles : LoadFails(f) /\ OpenProject(f))
          => UNCHANGED <<tabs, tab_index, canvases, canvas_list, current_canvas_id>>]_vars


\* d is c after a pointer move to pos that dragged the selection: the pointer's
\* last position is pos, every selected element went with the pointer, and
\* nothing else differs
DraggedTo(c, d, pos) ==
    /\ d.drag_start = pos
    /\ d.dragging
    /\ d.selected_elements = c.selected_elements
    /\ IdSeq(d) = IdSeq(c)
    /\ \A i \in DOMAIN c.elements :
          LET e == c.elements[i]
              f == d.elements[i]
          IN  /\ f.size = e.size
              /\ f.element_type = e.element_type
              /\ f.position = IF e.id \in Range(c.selected_elements)
                              THEN <<e.position[1] + pos[1] - c.drag_start[1],
                                     e.position[2] + pos[2] - c.drag_start[2]>>
                              ELSE e.position

NoDuplicates(s) == \A i, j \in DOMAIN s : i # j => s[i] # s[j]

\* The ids of the elements whose bounds intersect rect
IdsInRect(c, rect) ==
    {c.elements[i].id : i \in {j \in DOMAIN c.elements :
                                  RectIntersects(rect, get_bounds(c.elements[j]))}}

\* A left press at pos with the select tool, off any link, selects as stated
PressSelects(c, pos, ctrl) ==
    LET i == get_element_at(c, pos)
        d == PressSelect(c, pos, ctrl)
    IN  IF i # 0
        THEN /\ Range(d.selected_elements) =
                   (IF ctrl THEN Range(c.selected_elements) ELSE {}) \cup {c.elements[i].id}
             /\ NoDuplicates(d.selected_elements)
        ELSE /\ d.selected_elements = <<>>
             /\ d.selection_start = pos
             /\ d.selection_rect # None

\* A left release that ends a rubber band, the selection still as the press
\* left it, selects the elements under it
ReleaseSelects(c) ==
    LET d == mouseReleaseEvent(c, "select", next_id)
    IN  /\ Range(d.selected_elements) = IdsInRect(c, c.selection_rect)
        /\ NoDuplicates(d.selected_elements)
        /\ d.selection_rect = None

C23_LineBoundsHoldEnds ==
    \A t \in DOMAIN tabs : \A i \in DOMAIN tabs[t].elements :
        LET e == tabs[t].elements[i]
        IN  (/\ e.element_type \in {"straight", "arrow"}
             /\ EndOf(e) # None
             /\ EndOf(e) # e.position)
                => contains_point(e, e.position) /\ contains_point(e, EndOf(e))


\* C24: close_canvas_tab removes the closed canvas from canvases, from the
\* canvas list and from the tabs, changes no other canvas (each stays open,
\* registered in canvases and listed), and, if a tab remains, makes the canvas
\* in the first tab the current canvas.
C24_CloseTab ==
    [][\A index \in 1..MaxTabs :
          CloseTab(index) =>
              /\ tabs' = RemoveAt(tabs, index)
              /\ Keys(canvases') = {tabs'[i].canvas_id : i \in DOMAIN tabs'}
              /\ \A i \in DOMAIN tabs' : CanvasTab(canvases', tabs'[i].canvas_id) = i
              /\ Len(canvas_list') = Len(tabs')
              /\ Range(canvas_list') = {tabs'[i].canvas_id : i \in DOMAIN tabs'}
              /\ tabs' # <<>> =>
                    tab_index' = 1 /\ current_canvas_id' = tabs'[1].canvas_id]_vars


\* The topmost element under pos is a link whose target is missing or is not
\* an open canvas
DeadLink(pos) ==
    /\ tab_index # 0
    /\ OnLink(pos)
    /\ LET target == Visible.elements[get_element_at(Visible, pos)].data.target_canvas
       IN  target = 0 \/ CanvasTab(canvases, target) = 0 \/ FirstTabOf(tabs, target) = 0

\* C25: a left press on a link whose target_canvas is missing or is not an
\* open canvas changes nothing: not the current tab, not current_canvas_id,
\* not the canvas's elements, selection and draw/drag state.
C25_DeadLinkNoOp ==
    \A pos \in Pts : DeadLink(pos) => ~ENABLED (MousePressLink(pos) /\ vars' # vars)

\* A link is under the pointer whose target canvas was open and is closed
C25_Witness ==
    \E pos \in Pts :
        /\ DeadLink(pos)
        /\ Visible.elements[get_element_at(Visible, pos)].data.target_canvas # 0
        /\ ENABLED MousePressLink(pos)


\* The element get_element_at finds under pos on the visible canvas is a link
TopIsLink(pos) ==
    /\ tab_index # 0
    /\ \E i \in DOMAIN Visible.elements :
          /\ contains_point(Visible.elements[i], pos)
          /\ \A j \in DOMAIN Visible.elements :
                contains_point(Visible.elements[j], pos) => j <= i
          /\ Visible.elements[i].element_type = "link"

\* C26: a left press whose topmost element is a link is consumed, whatever
\* the tool: it adds no element, changes no selection and sets none of
\* drawing, dragging, start_point and selection_start (no canvas changes and
\* no element is constructed).
C26_LinkPressConsumed ==
    [][\A pos \in Pts :
          (/\ TopIsLink(pos)
           /\ \/ MousePressLink(pos)
              \/ \E ctrl \in BOOLEAN : MousePressLeft(pos, ctrl))
              => UNCHANGED <<tabs, next_id, current_tool>>]_vars

\* With the rect tool active a link is under the pointer, and the press on it
\* shows the second tab
C26_Witness ==
    \E pos \in Pts :
        /\ TopIsLink(pos)
        /\ current_tool = "rect"
        /\ ENABLED (MousePressLink(pos) /\ tab_index' = 2)


\* C27: a pointer press with the right or the middle button never adds an
\* element to the canvas, whatever tool is active.
C27_OtherButtonsAddNothing ==
    [][\A pos \in Pts :
          (MousePressMiddle(pos) \/ MousePressRight(pos))
              => \A t \in DOMAIN tabs : ElementIds(tabs'[t]) \subseteq ElementIds(tabs[t])]_vars


\* d is c with nothing changed but the positions of selected elements
OnlySelectedMoved(c, d) ==
    /\ d.selected_elements = c.selected_elements
    /\ IdSeq(d) = IdSeq(c)
    /\ \A i \in DOMAIN c.elements :
          /\ d.elements[i].size = c.elements[i].size
          /\ d.elements[i].element_type = c.elements[i].element_type
          /\ c.elements[i].id \notin Range(c.selected_elements)
                => d.elements[i] = c.elements[i]

\* C28: align_elements never changes an element's size or type, the elements
\* list or the selection, and never moves an element outside the set it is
\* given (the selection); given fewer than two elements it changes nothing.
C28_AlignFrame ==
    \A t \in DOMAIN tabs : \A align_type \in AlignmentType :
        LET d == align_elements(tabs[t], align_type)
        IN  /\ OnlySelectedMoved(tabs[t], d)
            /\ Len(tabs[t].selected_elements) < 2 => d = tabs[t]

\* Two of three elements are selected and an alignment moves one of them
C28_Witness ==
    /\ tab_index # 0
    /\ Len(Visible.elements) = 3
    /\ Len(SelectedIndexes(Visible)) = 2
    /\ \E align_type \in EdgeAlignments :
          /\ AlignExact(Visible, align_type)
          /\ align_elements(Visible, align_type) # Visible

=============================================================================
